---- MODULE Spec2Model ----
(***************************************************************************)
(* A model of the face tracking engine of the virtual try-on service:      *)
(*   face_detection/utils.py   AdvancedFaceTracker and the module-level    *)
(*                             face_tracker instance                       *)
(*   face_detection/views.py   detect_face, the request handler calling it *)
(*                                                                         *)
(* Python floats are held as fixed-point numbers, Unit parts to 1.0, and   *)
(* every float operation rounds its exact result to the nearest part, as   *)
(* an IEEE operation rounds to the nearest representable value.            *)
(***************************************************************************)
EXTENDS Integers, Sequences, FiniteSets, TLC

----------------------------------------------------------------------------
(* Float arithmetic *)

Unit == 10 * 10

Abs(a) == IF a < 0 THEN -a ELSE a

\* n/d rounded to the nearest integer (d > 0)
Round(n, d) == (n + d \div 2) \div d

F(whole) == whole * Unit

FMul(a, b) == Round(a * b, Unit)

\* float * int and float / int: the int operand is exact
FMulInt(a, k) == a * k

FDivInt(a, k) == Round(a, k)

FDiv(a, b) == IF b > 0 THEN Round(a * Unit, b) ELSE -Round(a * Unit, -b)

FSquare(a) == FMul(a, a)

RECURSIVE ISqrtBetween(_, _, _)
ISqrtBetween(n, lo, hi) ==
    IF lo >= hi THEN lo
    ELSE LET mid == (lo + hi + 1) \div 2
         IN  IF mid * mid <= n THEN ISqrtBetween(n, mid, hi)
                               ELSE ISqrtBetween(n, lo, mid - 1)

\* floor of the square root of n, n >= 0
ISqrt(n) == ISqrtBetween(n, 0, 46340)

\* np.sqrt: the root rounded to the nearest part
FSqrt(v) ==
    LET n == v * Unit
        r == ISqrt(n)
    IN  IF n - r * r > r THEN r + 1 ELSE r

FMin(a, b) == IF a <= b THEN a ELSE b

----------------------------------------------------------------------------
(* The landmark index map, AdvancedFaceTracker.__init__ *)

\* the names in the order the dict literal lists them (the iteration order)
LANDMARK_NAMES ==
    << "left_eye_center", "right_eye_center", "left_eye_inner",
       "right_eye_inner", "left_eye_outer", "right_eye_outer",
       "nose_tip", "nose_bridge", "forehead_center", "forehead_left",
       "forehead_right", "chin_center", "left_cheek", "right_cheek",
       "left_ear_tip", "right_ear_tip", "mouth_left", "mouth_right",
       "mouth_top", "mouth_bottom" >>

\* the eye centres taken from the iris landmarks, which only a refined mesh
\* of 478 entries has: a faulty variant of LANDMARK_INDICES
LANDMARK_INDICES_iris ==
    [ left_eye_center |-> 468, right_eye_center |-> 473,
      left_eye_inner  |-> 133, right_eye_inner  |-> 362,
      left_eye_outer  |-> 33,  right_eye_outer  |-> 263,
      nose_tip        |-> 1,   nose_bridge      |-> 6,
      forehead_center |-> 10,  forehead_left    |-> 21,
      forehead_right  |-> 251, chin_center      |-> 175,
      left_cheek      |-> 116, right_cheek      |-> 345,
      left_ear_tip    |-> 234, right_ear_tip    |-> 454,
      mouth_left      |-> 61,  mouth_right      |-> 291,
      mouth_top       |-> 13,  mouth_bottom     |-> 14 ]

LANDMARK_INDICES ==
    [ left_eye_center |-> 33,  right_eye_center |-> 362,
      left_eye_inner  |-> 133, right_eye_inner  |-> 362,
      left_eye_outer  |-> 33,  right_eye_outer  |-> 263,
      nose_tip        |-> 1,   nose_bridge      |-> 6,
      forehead_center |-> 10,  forehead_left    |-> 21,
      forehead_right  |-> 251, chin_center      |-> 175,
      left_cheek      |-> 116, right_cheek      |-> 345,
      left_ear_tip    |-> 234, right_ear_tip    |-> 454,
      mouth_left      |-> 61,  mouth_right      |-> 291,
      mouth_top       |-> 13,  mouth_bottom     |-> 14 ]

NameSet == { LANDMARK_NAMES[k] : k \in 1..Len(LANDMARK_NAMES) }

----------------------------------------------------------------------------
(* The detector's output and the frames submitted, the inputs of the model *)

\* normalized coordinates <<x, y, z>> of the face shapes the detector reports
Shapes ==
    [ level  |-> [ left_eye |-> <<25, 50, 0>>,  right_eye |-> <<55, 50, 0>>,
                   forehead |-> <<25, 25, 0>>,  chin      |-> <<25, 45, 0>>,
                   nose     |-> <<40, 60, -2>>, other     |-> <<50, 50, 1>> ],
      tilted |-> [ left_eye |-> <<30, 40, -1>>, right_eye |-> <<50, 55, 2>>,
                   forehead |-> <<40, 10, 0>>,  chin      |-> <<47, 90, 3>>,
                   nose     |-> <<42, 60, -4>>, other     |-> <<45, 50, 0>> ] ]

\* The visibility the detector reports for the landmark at idx: a face
\* carries one Optional value for the even and one for the odd indices, <<>>
\* where the landmark has no visibility attribute.
Visibilities(visibility, idx) == visibility[(idx % 2) + 1]

\* landmarks.landmark[idx] of a detected face, for idx < face.len
RawPoint(face, idx) ==
    LET shape == face.shape
        c == CASE idx \in {33}  -> shape.left_eye
               [] idx \in {362} -> shape.right_eye
               [] idx \in {10}  -> shape.forehead
               [] idx \in {175} -> shape.chin
               [] idx \in {1}   -> shape.nose
               [] OTHER         -> shape.other
    IN  [ x |-> c[1], y |-> c[2], z |-> c[3],
          visibility |-> Visibilities(face.visibility, idx) ]

\* a decoded frame: its size, what the detector finds in it (at most one
\* face, max_num_faces = 1) and where in the frame that face is
Frames ==
    [ garbage  |-> [ decodable |-> FALSE, width |-> 0, height |-> 0,
                     detector |-> "ok", region |-> "none", faces |-> <<>> ],
      crash    |-> [ decodable |-> TRUE, width |-> 400, height |-> 200,
                     detector |-> "raise", region |-> "none", faces |-> <<>> ],
      empty    |-> [ decodable |-> TRUE, width |-> 400, height |-> 200,
                     detector |-> "ok", region |-> "none", faces |-> <<>> ],
      short    |-> [ decodable |-> TRUE, width |-> 400, height |-> 200,
                     detector |-> "ok", region |-> "left",
                     faces |-> << [ len |-> 300, shape |-> Shapes.level,
                                    visibility |-> << <<100>>, <<100>> >> ] >> ],
      short454 |-> [ decodable |-> TRUE, width |-> 400, height |-> 200,
                     detector |-> "ok", region |-> "left",
                     faces |-> << [ len |-> 454, shape |-> Shapes.tilted,
                                    visibility |-> << <<>>, <<>> >> ] >> ],
      level    |-> [ decodable |-> TRUE, width |-> 400, height |-> 200,
                     detector |-> "ok", region |-> "left",
                     faces |-> << [ len |-> 468, shape |-> Shapes.level,
                                    visibility |-> << <<>>, <<>> >> ] >> ],
      tilted   |-> [ decodable |-> TRUE, width |-> 300, height |-> 200,
                     detector |-> "ok", region |-> "right",
                     faces |-> << [ len |-> 478, shape |-> Shapes.tilted,
                                    visibility |-> << <<20>>, <<130>> >> ] >> ] ]

FrameIds == DOMAIN Frames

\* the upload of a request: request.FILES['image'] when there is one
MaxUploadSize == 10 * 1024 * 1024

AllowedTypes == { "image/jpeg", "image/jpg", "image/png", "image/webp" }

Uploads ==
    { [ has_image |-> FALSE, size |-> 0, content_type |-> "", frame |-> "garbage" ],
      [ has_image |-> TRUE, size |-> MaxUploadSize + 1,
        content_type |-> "image/png", frame |-> "level" ],
      [ has_image |-> TRUE, size |-> MaxUploadSize,
        content_type |-> "image/gif", frame |-> "level" ] }
    \cup { [ has_image |-> TRUE, size |-> 2048, content_type |-> "image/jpeg",
             frame |-> f ] : f \in FrameIds }

----------------------------------------------------------------------------
(* AdvancedFaceTracker: the geometry, as pure functions *)

\* an Optional value is <<>> (None) or <<v>>
None == <<>>

Some(v) == << v >>

NoPoints == [ n \in {} |-> 0 ]

\* z scaled by the height of the frame: a faulty variant of get_point_coords
get_point_coords_z_by_height(face, idx, width, height) ==
    LET point == RawPoint(face, idx)
    IN  [ x |-> FMulInt(point.x, width),
          y |-> FMulInt(point.y, height),
          z |-> FMulInt(point.z, height),
          visibility |-> IF point.visibility = <<>> THEN F(1)
                         ELSE point.visibility[1] ]

\* a missing visibility read as 0.0: a faulty variant of get_point_coords
get_point_coords_default_zero(face, idx, width, height) ==
    LET point == RawPoint(face, idx)
    IN  [ x |-> FMulInt(point.x, width),
          y |-> FMulInt(point.y, height),
          z |-> FMulInt(point.z, width),
          visibility |-> IF point.visibility = <<>> THEN 0
                         ELSE point.visibility[1] ]

get_point_coords(face, idx, width, height) ==
    LET point == RawPoint(face, idx)
    IN  [ x |-> FMulInt(point.x, width),
          y |-> FMulInt(point.y, height),
          z |-> FMulInt(point.z, width),
          visibility |-> IF point.visibility = <<>> THEN F(1)
                         ELSE point.visibility[1] ]

\* the loop over LANDMARK_INDICES.items() from its k-th item on: it stops
\* with an IndexError at the first index the landmark array does not have
RECURSIVE ExtractFrom(_, _, _, _, _, _)
ExtractFrom(indices, face, width, height, k, key_points) ==
    IF k > Len(LANDMARK_NAMES) THEN [ raised |-> FALSE, key_points |-> key_points ]
    ELSE LET name == LANDMARK_NAMES[k]
             idx  == indices[name]
         IN  IF idx >= face.len
             THEN [ raised |-> TRUE, key_points |-> key_points ]
             ELSE ExtractFrom(indices, face, width, height, k + 1,
                      (name :> get_point_coords(face, idx, width, height))
                          @@ key_points)

\* the loop as it would be with the IndexError swallowed, the points
\* extracted so far kept: a faulty variant of ExtractKeyPoints
ExtractKeyPointsSwallowing(indices, face, width, height) ==
    [ raised |-> FALSE,
      key_points |-> ExtractFrom(indices, face, width, height, 1, NoPoints).key_points ]

\* the loop as it would be if it left out the last item of the index map:
\* a faulty variant of ExtractKeyPoints
ExtractKeyPointsLeavingOneOut(indices, face, width, height) ==
    LET got  == ExtractFrom(indices, face, width, height, 1, NoPoints)
        last == LANDMARK_NAMES[Len(LANDMARK_NAMES)]
    IN  [ raised |-> got.raised,
          key_points |-> [ n \in DOMAIN got.key_points \ { last } |->
                             got.key_points[n] ] ]

ExtractKeyPoints(indices, face, width, height) ==
    ExtractFrom(indices, face, width, height, 1, NoPoints)

\* the distance in space, z included: a faulty variant of Distance2D
Distance3D(p, q) ==
    FSqrt(FSquare(q.x - p.x) + FSquare(q.y - p.y) + FSquare(q.z - p.z))

Distance2D(p, q) == FSqrt(FSquare(q.x - p.x) + FSquare(q.y - p.y))

\* height over width: a faulty variant of AspectRatio
AspectRatioInverted(face_width, face_height) ==
    IF face_height > 0 /\ face_width > 0 THEN FDiv(face_height, face_width)
    ELSE F(1)

\* face_width / face_height if face_height > 0 else 1.0
AspectRatio(face_width, face_height) ==
    IF face_height > 0 THEN FDiv(face_width, face_height) ELSE F(1)

calculate_face_measurements(points) ==
    LET left_eye     == points["left_eye_center"]
        right_eye    == points["right_eye_center"]
        forehead     == points["forehead_center"]
        chin         == points["chin_center"]
        eye_distance == Distance2D(left_eye, right_eye)
        face_height  == Distance2D(forehead, chin)
        face_width   == FMul(eye_distance, 250)
    IN  [ eye_distance |-> eye_distance,
          face_height  |-> face_height,
          face_width   |-> face_width,
          eye_center   |-> [ x |-> FDivInt(left_eye.x + right_eye.x, 2),
                             y |-> FDivInt(left_eye.y + right_eye.y, 2),
                             z |-> FDivInt(left_eye.z + right_eye.z, 2) ],
          aspect_ratio |-> AspectRatio(face_width, face_height) ]

\* An angle is kept as the pair (y, x) it is the arctan2 of, in radians or
\* converted to degrees: it is 0 exactly when y = 0 and x > 0.
Arctan2(y, x) == [ y |-> y, x |-> x, unit |-> "rad" ]

Arctan(t) == Arctan2(t, F(1))

Degrees(angle) == [ angle EXCEPT !.unit = "deg" ]

IsZeroAngle(angle) == angle.y = 0 /\ angle.x > 0

\* arctan2 given x before y: a faulty variant of calculate_face_orientation
calculate_face_orientation_roll_swapped(points) ==
    LET left_eye  == points["left_eye_center"]
        right_eye == points["right_eye_center"]
        nose      == points["nose_tip"]
        roll  == Arctan2(right_eye.x - left_eye.x, right_eye.y - left_eye.y)
        eye_center_x == FDivInt(left_eye.x + right_eye.x, 2)
        yaw   == Arctan(FDivInt(nose.x - eye_center_x, 100))
        eye_center_y == FDivInt(left_eye.y + right_eye.y, 2)
        pitch == Arctan(FDivInt(nose.y - eye_center_y, 100))
    IN  [ roll |-> roll, yaw |-> yaw, pitch |-> pitch,
          roll_degrees  |-> Degrees(roll),
          yaw_degrees   |-> Degrees(yaw),
          pitch_degrees |-> Degrees(pitch) ]

calculate_face_orientation(points) ==
    LET left_eye  == points["left_eye_center"]
        right_eye == points["right_eye_center"]
        nose      == points["nose_tip"]
        roll  == Arctan2(right_eye.y - left_eye.y, right_eye.x - left_eye.x)
        eye_center_x == FDivInt(left_eye.x + right_eye.x, 2)
        yaw   == Arctan(FDivInt(nose.x - eye_center_x, 100))
        eye_center_y == FDivInt(left_eye.y + right_eye.y, 2)
        pitch == Arctan(FDivInt(nose.y - eye_center_y, 100))
    IN  [ roll |-> roll, yaw |-> yaw, pitch |-> pitch,
          roll_degrees  |-> Degrees(roll),
          yaw_degrees   |-> Degrees(yaw),
          pitch_degrees |-> Degrees(pitch) ]

\* the hat moved down from the forehead instead of up: a faulty variant of
\* calculate_accessory_positions
calculate_accessory_positions_hat_lowered(points, measurements) ==
    LET eye_center == measurements.eye_center
        forehead   == points["forehead_center"]
    IN  [ glasses |->
            [ position       |-> eye_center,
              scale          |-> FDivInt(measurements.eye_distance, 120),
              rotation_point |-> eye_center,
              width          |-> FMul(measurements.eye_distance, 140),
              height         |-> FMul(measurements.eye_distance, 60) ],
          hat |->
            [ position       |-> [ x |-> forehead.x,
                                   y |-> forehead.y
                                           + FMul(measurements.face_height, 20),
                                   z |-> forehead.z ],
              scale          |-> FDivInt(measurements.face_width, 200),
              rotation_point |-> forehead,
              width          |-> measurements.face_width,
              height         |-> FMul(measurements.face_width, 60) ],
          earrings |->
            [ left_position  |-> points["left_ear_tip"],
              right_position |-> points["right_ear_tip"],
              scale          |-> FDivInt(measurements.eye_distance, 150) ] ]

\* the glasses scaled by the divisor of the earrings: a faulty variant of
\* calculate_accessory_positions
calculate_accessory_positions_glasses_by_150(points, measurements) ==
    LET eye_center == measurements.eye_center
        forehead   == points["forehead_center"]
    IN  [ glasses |->
            [ position       |-> eye_center,
              scale          |-> FDivInt(measurements.eye_distance, 150),
              rotation_point |-> eye_center,
              width          |-> FMul(measurements.eye_distance, 140),
              height         |-> FMul(measurements.eye_distance, 60) ],
          hat |->
            [ position       |-> [ x |-> forehead.x,
                                   y |-> forehead.y
                                           - FMul(measurements.face_height, 20),
                                   z |-> forehead.z ],
              scale          |-> FDivInt(measurements.face_width, 200),
              rotation_point |-> forehead,
              width          |-> measurements.face_width,
              height         |-> FMul(measurements.face_width, 60) ],
          earrings |->
            [ left_position  |-> points["left_ear_tip"],
              right_position |-> points["right_ear_tip"],
              scale          |-> FDivInt(measurements.eye_distance, 150) ] ]

calculate_accessory_positions(points, measurements) ==
    LET eye_center == measurements.eye_center
        forehead   == points["forehead_center"]
    IN  [ glasses |->
            [ position       |-> eye_center,
              scale          |-> FDivInt(measurements.eye_distance, 120),
              rotation_point |-> eye_center,
              width          |-> FMul(measurements.eye_distance, 140),
              height         |-> FMul(measurements.eye_distance, 60) ],
          hat |->
            [ position       |-> [ x |-> forehead.x,
                                   y |-> forehead.y
                                           - FMul(measurements.face_height, 20),
                                   z |-> forehead.z ],
              scale          |-> FDivInt(measurements.face_width, 200),
              rotation_point |-> forehead,
              width          |-> measurements.face_width,
              height         |-> FMul(measurements.face_width, 60) ],
          earrings |->
            [ left_position  |-> points["left_ear_tip"],
              right_position |-> points["right_ear_tip"],
              scale          |-> FDivInt(measurements.eye_distance, 150) ] ]

RECURSIVE SumVisibility(_, _)
SumVisibility(points, names) ==
    IF names = {} THEN 0
    ELSE LET n == CHOOSE m \in names : TRUE
         IN  points[n].visibility + SumVisibility(points, names \ {n})

calculate_confidence(points) ==
    LET total_visibility   == SumVisibility(points, DOMAIN points)
        average_visibility == FDivInt(total_visibility, Cardinality(DOMAIN points))
    IN  FMin(average_visibility, F(1))

\* the dict as it would be with the two entries of image.shape taken the
\* wrong way round: a faulty variant of DetectionDict
DetectionDictSwapped(key_points, measurements, orientation, accessory_positions, processing_time, confidence, width, height) ==
    [ landmarks           |-> key_points,
      measurements        |-> measurements,
      orientation         |-> orientation,
      accessory_positions |-> accessory_positions,
      processing_time     |-> processing_time,
      confidence          |-> confidence,
      image_dimensions    |-> [ width |-> height, height |-> width ] ]

\* the dict _extract_comprehensive_landmarks returns
DetectionDict(key_points, measurements, orientation, accessory_positions, processing_time, confidence, width, height) ==
    [ landmarks           |-> key_points,
      measurements        |-> measurements,
      orientation         |-> orientation,
      accessory_positions |-> accessory_positions,
      processing_time     |-> processing_time,
      confidence          |-> confidence,
      image_dimensions    |-> [ width |-> width, height |-> height ] ]

----------------------------------------------------------------------------
(* The state *)

\* how many requests the model lets arrive
NumRequests == 2

Requests == 1..NumRequests

VARIABLES
    face_tracker,   \* the module-level AdvancedFaceTracker instance
    rq,             \* per request: the locals of detect_face and of the
                    \* detect_face_landmarks call it makes
    session,        \* request.session of the client: its face_session_key
    uuids,          \* how many uuid4 keys have been drawn
    db_sessions,    \* FaceDetectionSession rows, by session_key
    db_results,     \* FaceDetectionResult rows, in id order
    cache,          \* django cache: latest_detection_<session_key>
    db_models,      \* AccessoryModel rows, by id
    db_ratings,     \* ModelRating rows, by << model, user >>
    mq,             \* per request to AccessoryModelViewSet: its locals
    db_tryons,      \* AccessoryTryOn rows, in id order
    cq,             \* per request of the client to the face_detection
                    \* views, taken statement by statement: its locals
    cleared         \* a clear_session of the client's face session has
                    \* completed and no detect_face has succeeded since

detection_vars ==
    << face_tracker, rq, session, uuids, db_sessions, db_results, cache >>

manager_vars == << db_models, db_ratings, mq >>

client_vars == << db_tryons, cq, cleared >>

vars == << face_tracker, rq, session, uuids, db_sessions, db_results, cache,
           db_models, db_ratings, mq, db_tryons, cq, cleared >>

NotRun == 0 - 1

\* how many requests to the viewset the model lets arrive
NumManagerRequests == 2

ManagerRequests == 1..NumManagerRequests

\* the AccessoryModel table: two active models and a withdrawn one
\* average_rating is kept in hundredths
AccessoryModels ==
    [ glasses_a |-> [ is_active |-> TRUE,  usage_count |-> 0,
                      average_rating |-> 0 ],
      hat_b     |-> [ is_active |-> TRUE,  usage_count |-> 7,
                      average_rating |-> 300 ],
      old_c     |-> [ is_active |-> FALSE, usage_count |-> 2,
                      average_rating |-> 0 ] ]

\* the pk of a request: a row of the table or no row at all
Pks == DOMAIN AccessoryModels \cup { "missing" }

\* the users who can authenticate
Users == { "u1", "u2" }

\* the ModelRating table: hat_b has one rating, of 3
ModelRatings == (<< "hat_b", "u2" >> :> [ rating |-> 3, comment |-> "" ])

\* request.data.get('rating'): absent, or a text that int() takes or not
RatingInputs ==
    { [ present |-> FALSE, numeric |-> FALSE, value |-> 0 ],
      [ present |-> TRUE,  numeric |-> FALSE, value |-> 0 ],
      [ present |-> TRUE,  numeric |-> TRUE,  value |-> 0 ],
      [ present |-> TRUE,  numeric |-> TRUE,  value |-> 2 ],
      [ present |-> TRUE,  numeric |-> TRUE,  value |-> 5 ],
      [ present |-> TRUE,  numeric |-> TRUE,  value |-> 6 ] }

NoRating == [ present |-> FALSE, numeric |-> FALSE, value |-> 0 ]

\* the requests sent to the viewset: increment_usage on every pk with and
\* without a user; rate with a rating in range by each user on the active
\* models, with every other rating on one of them, on a withdrawn and on a
\* missing model, and without a user
ManagerInputs ==
    { [ action |-> "increment_usage", pk |-> pk, authenticated |-> a,
        user |-> "u1", rating |-> NoRating ] :
          pk \in Pks, a \in BOOLEAN }
    \cup
    { [ action |-> "rate", pk |-> pk, authenticated |-> TRUE, user |-> u,
        rating |-> g ] :
          pk \in { "glasses_a", "hat_b" }, u \in Users,
          g \in { h \in RatingInputs : h.numeric /\ h.value \in 1..5 } }
    \cup
    { [ action |-> "rate", pk |-> "glasses_a", authenticated |-> TRUE,
        user |-> "u1", rating |-> g ] :
          g \in { h \in RatingInputs : ~(h.numeric /\ h.value \in 1..5) } }
    \cup
    { [ action |-> "rate", pk |-> pk, authenticated |-> a, user |-> "u1",
        rating |-> [ present |-> TRUE, numeric |-> TRUE, value |-> 5 ] ] :
          pk \in { "old_c", "missing" }, a \in { TRUE } }
    \cup
    { [ action |-> "rate", pk |-> "hat_b", authenticated |-> FALSE,
        user |-> "u1",
        rating |-> [ present |-> TRUE, numeric |-> TRUE, value |-> 5 ] ] }

IdleManagerRequest ==
    [ pc |-> "idle", action |-> "increment_usage", pk |-> "missing",
      authenticated |-> FALSE, user |-> "u1", rating |-> NoRating,
      model |-> None, created |-> FALSE, response |-> None ]

\* how many requests of the client the model lets arrive
NumClientRequests == 2

ClientRequests == 1..NumClientRequests

\* the uploads the client sends to detect_face: none, two the checks
\* reject, a frame without a face and a frame with one
ClientUploads ==
    { u \in Uploads : ~u.has_image \/ u.frame \in { "level", "empty" } }

NoUpload == [ has_image |-> FALSE, size |-> 0, content_type |-> "",
              frame |-> "garbage" ]

\* request.GET.get('limit', 10): a number or a text int() does not take
DefaultLimit == [ numeric |-> TRUE, value |-> 10 ]

\* request.data of save_accessory_tryron: "" and 0 stand for a missing
\* accessory_type and model_id
TryOnData ==
    { [ accessory_type |-> "glasses", model_id |-> 11, adjustments |-> "{}" ],
      [ accessory_type |-> "glasses", model_id |-> 12, adjustments |-> "moved" ],
      [ accessory_type |-> "hat",     model_id |-> 11, adjustments |-> "{}" ],
      [ accessory_type |-> "",        model_id |-> 11, adjustments |-> "{}" ],
      [ accessory_type |-> "glasses", model_id |-> 0,  adjustments |-> "{}" ] }

NoTryOnData == [ accessory_type |-> "", model_id |-> 0, adjustments |-> "{}" ]

\* the requests the client sends
ClientInputs ==
    { [ op |-> "detect_face", upload |-> u, limit |-> DefaultLimit,
        data |-> NoTryOnData ] : u \in ClientUploads }
    \cup
    { [ op |-> op, upload |-> NoUpload, limit |-> DefaultLimit,
        data |-> NoTryOnData ] : op \in { "clear_session", "get_session_tryons" } }
    \cup
    { [ op |-> "get_detection_history", upload |-> NoUpload, limit |-> l,
        data |-> NoTryOnData ] :
          l \in { DefaultLimit, [ numeric |-> TRUE, value |-> 1 ],
                  [ numeric |-> FALSE, value |-> 0 ] } }
    \cup
    { [ op |-> "save_accessory_tryron", upload |-> NoUpload,
        limit |-> DefaultLimit, data |-> d ] : d \in TryOnData }

\* session_data is request.session as the request has loaded it: <<>> before
\* its first access, then << key >> with key an Optional face_session_key;
\* modified tells whether the request has written to it
IdleClientRequest ==
    [ pc |-> "idle", op |-> "clear_session", upload |-> NoUpload,
      limit |-> DefaultLimit, data |-> NoTryOnData,
      session_data |-> <<>>, modified |-> FALSE,
      session_key |-> <<>>, detection_result |-> <<>>, created |-> FALSE,
      detection_id |-> 0, in_window |-> FALSE, response |-> <<>> ]

IdleRequest ==
    [ pc |-> "idle",
      upload |-> [ has_image |-> FALSE, size |-> 0, content_type |-> "",
                   frame |-> "garbage" ],
      now |-> 0,
      \* detect_face
      v_start_time |-> NotRun, detection_result |-> None,
      v_processing_time |-> NotRun, response |-> None,
      \* detect_face_landmarks and _extract_comprehensive_landmarks
      start_time |-> NotRun, image |-> None, results |-> None,
      end_time |-> NotRun, processing_time |-> NotRun, landmarks |-> None,
      key_points |-> NoPoints, measurements |-> None, orientation |-> None,
      accessory_positions |-> None, confidence |-> None,
      ret |-> None, returned_at |-> 0, caught |-> "", logged |-> <<>>,
      \* how often the call has invoked face_mesh.process (line 70) and
      \* _extract_comprehensive_landmarks (line 76)
      process_calls |-> 0, extract_calls |-> 0,
      \* when each stage of the call completed
      done_at |-> [ detect |-> NotRun, extract |-> NotRun, measure |-> NotRun,
                    orient |-> NotRun, accessory |-> NotRun,
                    confidence |-> NotRun ] ]

Init ==
    /\ face_tracker = [ LANDMARK_INDICES |-> LANDMARK_INDICES,
                        face_mesh |-> [ tracked |-> "none" ] ]
    /\ rq = [ i \in Requests |-> IdleRequest ]
    /\ session = None
    /\ uuids = 0
    /\ db_sessions = [ k \in {} |-> 0 ]
    /\ db_results = <<>>
    /\ cache = [ k \in {} |-> 0 ]
    /\ db_models = AccessoryModels
    /\ db_ratings = ModelRatings
    /\ db_tryons = <<>>
    /\ cq = [ c \in ClientRequests |-> IdleClientRequest ]
    /\ cleared = FALSE
    /\ mq = [ j \in ManagerRequests |-> IdleManagerRequest ]

----------------------------------------------------------------------------
(* AdvancedFaceTracker.detect_face_landmarks, step by step *)

\* one step of request i: r is its record after the step, which took a tick
Step(i, r) == rq' = [ rq EXCEPT ![i] = [ r EXCEPT !.now = @ + 1 ] ]

\* return None at `line`, back in detect_face
ReturnNone(r, line) ==
    [ r EXCEPT !.ret = None, !.returned_at = line, !.pc = "v_result" ]

\* a handler that runs the try block again: a faulty variant of Handler
HandlerRetrying(r, exc) ==
    [ r EXCEPT !.caught = exc,
               !.logged = Append(@, "Error in face detection: " \o exc),
               !.pc = "t_decode" ]

\* except Exception as e: logger.error(...); return None
Handler(r, exc) ==
    ReturnNone([ r EXCEPT !.caught = exc,
                          !.logged = Append(@, "Error in face detection: " \o exc) ],
               82)

\* FaceMesh.process on a tracker built with static_image_mode=False: the
\* frames are treated as one video stream. With no face tracked it runs the
\* detection on the frame; with a face tracked it looks for the face where
\* the previous frame had it, and when the frame's face is elsewhere it
\* either loses the track (no face reported) or detects afresh.
ProcessOutcomes(frame, tracked) ==
    LET afresh == [ faces |-> frame.faces,
                    tracked |-> IF frame.faces = <<>> THEN "none"
                                ELSE frame.region ]
        lost   == [ faces |-> <<>>, tracked |-> "none" ]
    IN  IF tracked = "none" \/ frame.faces = <<>> \/ tracked = frame.region
        THEN { afresh }
        ELSE { afresh, lost }

\* the test without its length check: a faulty variant of HasFace
HasFaceUnchecked(results) == results # None

\* results.multi_face_landmarks and len(results.multi_face_landmarks) > 0
HasFace(results) == results # None /\ Len(results[1]) > 0

T_Start(i) ==
    LET r == rq[i]
    IN  /\ r.pc = "t_start"
        /\ Step(i, [ r EXCEPT !.start_time = r.now, !.pc = "t_decode" ])
        /\ UNCHANGED << face_tracker, session, uuids, db_sessions, db_results, cache >>
        /\ UNCHANGED manager_vars
        /\ UNCHANGED client_vars

T_Decode(i) ==
    LET r == rq[i]
        frame == Frames[r.upload.frame]
    IN  /\ r.pc = "t_decode"
        /\ IF ~frame.decodable
           THEN Step(i, ReturnNone([ r EXCEPT !.logged =
                                       Append(@, "Failed to decode image") ], 61))
           ELSE Step(i, [ r EXCEPT !.image = Some([ width |-> frame.width,
                                                    height |-> frame.height ]),
                                   !.pc = "t_process" ])
        /\ UNCHANGED << face_tracker, session, uuids, db_sessions, db_results, cache >>
        /\ UNCHANGED manager_vars
        /\ UNCHANGED client_vars

T_Process(i) ==
    LET r == rq[i]
        frame == Frames[r.upload.frame]
    IN  /\ r.pc = "t_process"
        /\ IF frame.detector = "raise"
           THEN /\ Step(i, Handler([ r EXCEPT !.process_calls = @ + 1 ],
                                    "RuntimeError"))
                /\ UNCHANGED face_tracker
           ELSE \E out \in ProcessOutcomes(frame, face_tracker.face_mesh.tracked) :
                  /\ face_tracker' = [ face_tracker EXCEPT
                                         !.face_mesh.tracked = out.tracked ]
                  /\ Step(i, [ r EXCEPT !.results = Some(out.faces),
                                        !.process_calls = @ + 1,
                                        !.done_at.detect = r.now + 1,
                                        !.pc = "t_stamp" ])
        /\ UNCHANGED << session, uuids, db_sessions, db_results, cache >>
        /\ UNCHANGED manager_vars
        /\ UNCHANGED client_vars

T_Stamp(i) ==
    LET r == rq[i]
    IN  /\ r.pc = "t_stamp"
        /\ Step(i, [ r EXCEPT !.end_time = r.now,
                              !.processing_time =
                                  FMulInt(r.now - r.start_time, 1000),
                              !.pc = "t_select" ])
        /\ UNCHANGED << face_tracker, session, uuids, db_sessions, db_results, cache >>
        /\ UNCHANGED manager_vars
        /\ UNCHANGED client_vars

T_Select(i) ==
    LET r == rq[i]
    IN  /\ r.pc = "t_select"
        /\ IF HasFace(r.results)
           THEN IF Len(r.results[1]) = 0    \* multi_face_landmarks[0]
                THEN Step(i, Handler(r, "IndexError"))
                ELSE Step(i, [ r EXCEPT !.landmarks = Some(r.results[1][1]),
                                        !.pc = "t_extract" ])
           ELSE Step(i, ReturnNone(r, 78))
        /\ UNCHANGED << face_tracker, session, uuids, db_sessions, db_results, cache >>
        /\ UNCHANGED manager_vars
        /\ UNCHANGED client_vars

T_Extract(i) ==
    LET r == rq[i]
        got == ExtractKeyPoints(face_tracker.LANDMARK_INDICES, r.landmarks[1],
                                r.image[1].width, r.image[1].height)
    IN  /\ r.pc = "t_extract"
        /\ IF got.raised
           THEN Step(i, Handler([ r EXCEPT !.key_points = got.key_points,
                                           !.extract_calls = @ + 1 ],
                                "IndexError"))
           ELSE Step(i, [ r EXCEPT !.key_points = got.key_points,
                                   !.extract_calls = @ + 1,
                                   !.done_at.extract = r.now + 1,
                                   !.pc = "t_measure" ])
        /\ UNCHANGED << face_tracker, session, uuids, db_sessions, db_results, cache >>
        /\ UNCHANGED manager_vars
        /\ UNCHANGED client_vars

T_Measure(i) ==
    LET r == rq[i]
    IN  /\ r.pc = "t_measure"
        /\ Step(i, [ r EXCEPT !.measurements =
                                  Some(calculate_face_measurements(r.key_points)),
                              !.done_at.measure = r.now + 1,
                              !.pc = "t_orient" ])
        /\ UNCHANGED << face_tracker, session, uuids, db_sessions, db_results, cache >>
        /\ UNCHANGED manager_vars
        /\ UNCHANGED client_vars

T_Orient(i) ==
    LET r == rq[i]
    IN  /\ r.pc = "t_orient"
        /\ Step(i, [ r EXCEPT !.orientation =
                                  Some(calculate_face_orientation(r.key_points)),
                              !.done_at.orient = r.now + 1,
                              !.pc = "t_accessory" ])
        /\ UNCHANGED << face_tracker, session, uuids, db_sessions, db_results, cache >>
        /\ UNCHANGED manager_vars
        /\ UNCHANGED client_vars

T_Accessory(i) ==
    LET r == rq[i]
    IN  /\ r.pc = "t_accessory"
        /\ Step(i, [ r EXCEPT !.accessory_positions =
                                  Some(calculate_accessory_positions(
                                           r.key_points, r.measurements[1])),
                              !.done_at.accessory = r.now + 1,
                              !.pc = "t_return" ])
        /\ UNCHANGED << face_tracker, session, uuids, db_sessions, db_results, cache >>
        /\ UNCHANGED manager_vars
        /\ UNCHANGED client_vars

\* the return statement: the dict literal, whose 'confidence' entry calls
\* _calculate_confidence, handed back through detect_face_landmarks line 76
T_Return(i) ==
    LET r == rq[i]
        confidence == calculate_confidence(r.key_points)
    IN  /\ r.pc = "t_return"
        /\ Step(i, [ r EXCEPT !.confidence = Some(confidence),
                              !.done_at.confidence = r.now + 1,
                              !.ret = Some(DetectionDict(
                                          r.key_points, r.measurements[1],
                                          r.orientation[1],
                                          r.accessory_positions[1],
                                          r.processing_time, confidence,
                                          r.image[1].width, r.image[1].height)),
                              !.returned_at = 76,
                              !.pc = "v_result" ])
        /\ UNCHANGED << face_tracker, session, uuids, db_sessions, db_results, cache >>
        /\ UNCHANGED manager_vars
        /\ UNCHANGED client_vars

----------------------------------------------------------------------------
(* views.detect_face *)

Respond(r, status, body) ==
    [ r EXCEPT !.response = Some([ status |-> status, body |-> body ]),
               !.pc = "done" ]

\* a request arrives with its upload; requests are numbered as they arrive
V_Submit(i) ==
    LET r == rq[i]
    IN  /\ r.pc = "idle"
        /\ \A j \in Requests : j < i => rq[j].pc # "idle"
        /\ \E u \in Uploads : Step(i, [ r EXCEPT !.upload = u, !.pc = "v_validate" ])
        /\ UNCHANGED << face_tracker, session, uuids, db_sessions, db_results, cache >>
        /\ UNCHANGED manager_vars
        /\ UNCHANGED client_vars

\* the checks of the upload, then image_file.read() and start_time
V_Validate(i) ==
    LET r == rq[i]
        u == r.upload
    IN  /\ r.pc = "v_validate"
        /\ IF ~u.has_image
           THEN Step(i, Respond(r, 400, [ error |-> "No image file provided",
                                           code |-> "NO_IMAGE" ]))
           ELSE IF u.size > MaxUploadSize
           THEN Step(i, Respond(r, 400,
                    [ error |-> "Image file too large. Maximum size is 10MB",
                      code |-> "FILE_TOO_LARGE" ]))
           ELSE IF u.content_type \notin AllowedTypes
           THEN Step(i, Respond(r, 400,
                    [ error |-> "Invalid file type. Allowed types: JPEG, PNG, WebP",
                      code |-> "INVALID_FILE_TYPE" ]))
           ELSE Step(i, [ r EXCEPT !.v_start_time = r.now, !.pc = "t_start" ])
        /\ UNCHANGED << face_tracker, session, uuids, db_sessions, db_results, cache >>
        /\ UNCHANGED manager_vars
        /\ UNCHANGED client_vars

\* detect_face after the call: the branch on detection_result. With a
\* result it stores the session and the detection in one transaction, which
\* the database may fail (db_ok = FALSE): the except clause then answers 500,
\* and the session of a request answered 500 is not saved.
V_Result(i) ==
    LET r == rq[i]
        detection_result == r.ret
        processing_time == FMulInt(r.now - r.v_start_time, 1000)
        r1 == [ r EXCEPT !.detection_result = detection_result,
                         !.v_processing_time = processing_time ]
    IN  /\ r.pc = "v_result"
        /\ IF detection_result # None
           THEN LET d == detection_result[1]
                    fresh == session = None
                    session_key == IF fresh THEN uuids + 1 ELSE session[1]
                    detection ==
                        [ id |-> Len(db_results) + 1,
                          session |-> session_key,
                          landmarks_data |-> d,
                          confidence_score |-> d.confidence,
                          face_width |-> d.measurements.face_width,
                          face_height |-> d.measurements.face_height,
                          face_angle |-> d.orientation.roll,
                          processing_time |-> processing_time ]
                IN  /\ uuids' = IF fresh THEN uuids + 1 ELSE uuids
                    /\ \E db_ok \in BOOLEAN :
                         IF db_ok
                         THEN /\ db_sessions' =
                                   IF session_key \in DOMAIN db_sessions
                                   THEN db_sessions
                                   ELSE (session_key :> [ is_active |-> TRUE ])
                                            @@ db_sessions
                              /\ db_results' = Append(db_results, detection)
                              /\ cache' = (session_key :> d)
                                              @@ [ k \in DOMAIN cache \ {session_key}
                                                     |-> cache[k] ]
                              /\ session' = Some(session_key)
                              /\ Step(i, Respond(r1, 200,
                                   [ success |-> TRUE,
                                     detection_id |-> detection.id,
                                     session_id |-> session_key,
                                     landmarks |-> d.landmarks,
                                     measurements |-> d.measurements,
                                     orientation |-> d.orientation,
                                     accessory_positions |-> d.accessory_positions,
                                     confidence |-> d.confidence,
                                     processing_time |-> processing_time ]))
                         ELSE /\ Step(i, Respond(r1, 500,
                                   [ error |-> "Internal server error",
                                     code |-> "INTERNAL_ERROR" ]))
                              /\ UNCHANGED << session, db_sessions,
                                               db_results, cache >>
           ELSE /\ Step(i, Respond(r1, 200,
                       [ success |-> FALSE,
                         message |-> "No face detected in the image",
                         code |-> "NO_FACE_DETECTED" ]))
                /\ UNCHANGED << session, uuids, db_sessions, db_results, cache >>
        /\ UNCHANGED face_tracker
        /\ UNCHANGED manager_vars
        /\ UNCHANGED client_vars

----------------------------------------------------------------------------

Next ==
    \E i \in Requests :
        \/ V_Submit(i)
        \/ V_Validate(i)
        \/ T_Start(i)
        \/ T_Decode(i)
        \/ T_Process(i)
        \/ T_Stamp(i)
        \/ T_Select(i)
        \/ T_Extract(i)
        \/ T_Measure(i)
        \/ T_Orient(i)
        \/ T_Accessory(i)
        \/ T_Return(i)
        \/ V_Result(i)

Spec == Init /\ [][Next]_vars

----------------------------------------------------------------------------
(* The geometry on its own: one call that has reached the extraction, for  *)
(* every detector output of a bounded set                                  *)

VisibilityValues == { <<>>, << -50 >>, << 50 >>, << 100 >>, << 150 >> }

GeomFaces ==
    { [ len |-> 468,
        shape |-> [ left_eye |-> le, right_eye |-> re, forehead |-> fh,
                    chin |-> ch, nose |-> <<40, 60, -2>>,
                    other |-> <<50, 50, 1>> ],
        visibility |-> << ve, vo >> ] :
          le \in { <<25, 50, 0>>, <<30, 40, -1>> },
          re \in { <<55, 50, 0>>, <<50, 55, 2>>, <<25, 50, 3>> },
          fh \in { <<25, 25, 0>>, <<60, 40, 0>> },
          ch \in { <<25, 45, 0>>, <<47, 90, 3>>, <<60, 40, 5>> },
          ve \in VisibilityValues, vo \in VisibilityValues }

GeomImages == { [ width |-> 400, height |-> 200 ],
                [ width |-> 300, height |-> 200 ] }

\* request 1 as detect_face_landmarks line 76 finds it: validated, decoded,
\* the detector run, the time taken, the first face selected
AtExtraction(face, image) ==
    [ IdleRequest EXCEPT
        !.pc = "t_extract", !.now = 7,
        !.upload = [ has_image |-> TRUE, size |-> 2048,
                     content_type |-> "image/jpeg", frame |-> "level" ],
        !.v_start_time = 1, !.start_time = 2, !.image = Some(image),
        !.results = Some(<< face >>), !.end_time = 5,
        !.processing_time = FMulInt(5 - 2, 1000),
        !.landmarks = Some(face), !.process_calls = 1,
        !.done_at.detect = 5 ]

InitGeom ==
    /\ face_tracker = [ LANDMARK_INDICES |-> LANDMARK_INDICES,
                        face_mesh |-> [ tracked |-> "left" ] ]
    /\ \E face \in GeomFaces, image \in GeomImages :
         rq = [ i \in Requests |->
                  IF i = 1 THEN AtExtraction(face, image) ELSE IdleRequest ]
    /\ session = None
    /\ uuids = 0
    /\ db_sessions = [ k \in {} |-> 0 ]
    /\ db_results = <<>>
    /\ cache = [ k \in {} |-> 0 ]
    /\ db_models = AccessoryModels
    /\ db_ratings = ModelRatings
    /\ db_tryons = <<>>
    /\ cq = [ c \in ClientRequests |-> IdleClientRequest ]
    /\ cleared = FALSE
    /\ mq = [ j \in ManagerRequests |-> IdleManagerRequest ]

NextGeom ==
    \E i \in Requests :
        \/ T_Extract(i)
        \/ T_Measure(i)
        \/ T_Orient(i)
        \/ T_Accessory(i)
        \/ T_Return(i)

SpecGeom == InitGeom /\ [][NextGeom]_vars

----------------------------------------------------------------------------
(* models_manager: AccessoryModelViewSet.increment_usage and rate, step by  *)
(* step                                                                    *)

MStep(j, r) == mq' = [ mq EXCEPT ![j] = r ]

MRespond(r, status, body) ==
    [ r EXCEPT !.response = Some([ status |-> status, body |-> body ]),
               !.pc = "done" ]

\* POST models/<pk>/increment_usage/ or models/<pk>/rate/ arrives; requests
\* are numbered in the order of their arrival
M_Submit(j) ==
    /\ mq[j].pc = "idle"
    /\ \A k \in ManagerRequests : k < j => mq[k].pc # "idle"
    /\ \E input \in ManagerInputs :
          MStep(j, [ mq[j] EXCEPT !.action = input.action, !.pk = input.pk,
                                  !.authenticated = input.authenticated,
                                  !.user = input.user,
                                  !.rating = input.rating,
                                  !.pc = "m_permission" ])
    /\ UNCHANGED << db_models, db_ratings >>
    /\ UNCHANGED detection_vars
    /\ UNCHANGED client_vars

\* permission_classes = [IsAuthenticatedOrReadOnly]: a POST needs a user
M_Permission(j) ==
    /\ mq[j].pc = "m_permission"
    /\ IF mq[j].authenticated
       THEN MStep(j, [ mq[j] EXCEPT !.pc = "m_get_object" ])
       ELSE MStep(j, MRespond(mq[j], 403, "not authenticated"))
    /\ UNCHANGED << db_models, db_ratings >>
    /\ UNCHANGED detection_vars
    /\ UNCHANGED client_vars

\* model = self.get_object(): the row of get_queryset() with this pk, read
\* into an instance of its own, or a 404
M_GetObject(j) ==
    /\ mq[j].pc = "m_get_object"
    /\ IF mq[j].pk \in DOMAIN db_models /\ db_models[mq[j].pk].is_active
       THEN MStep(j, [ mq[j] EXCEPT !.model = Some(db_models[mq[j].pk]),
                                    !.pc = IF mq[j].action = "rate"
                                           THEN "r_validate"
                                           ELSE "m_increment" ])
       ELSE MStep(j, MRespond(mq[j], 404, "not found"))
    /\ UNCHANGED << db_models, db_ratings >>
    /\ UNCHANGED detection_vars
    /\ UNCHANGED client_vars

\* self.usage_count += 1, on the instance
M_Increment(j) ==
    /\ mq[j].pc = "m_increment"
    /\ MStep(j, [ mq[j] EXCEPT !.model[1].usage_count = @ + 1,
                                !.pc = "m_save" ])
    /\ UNCHANGED << db_models, db_ratings >>
    /\ UNCHANGED detection_vars
    /\ UNCHANGED client_vars

\* self.save(update_fields=['usage_count']): UPDATE ... SET usage_count =
\* the value of the instance
M_Save(j) ==
    /\ mq[j].pc = "m_save"
    /\ db_models' = [ db_models EXCEPT ![mq[j].pk].usage_count =
                                          mq[j].model[1].usage_count ]
    /\ MStep(j, [ mq[j] EXCEPT !.pc = "m_respond" ])
    /\ UNCHANGED db_ratings
    /\ UNCHANGED detection_vars
    /\ UNCHANGED client_vars

\* return Response({'usage_count': model.usage_count})
M_Respond(j) ==
    /\ mq[j].pc = "m_respond"
    /\ MStep(j, MRespond(mq[j], 200,
                         [ usage_count |-> mq[j].model[1].usage_count ]))
    /\ UNCHANGED << db_models, db_ratings >>
    /\ UNCHANGED detection_vars
    /\ UNCHANGED client_vars

\* the ratings a request is allowed to store: 1 <= int(rating_value) <= 5
ValidRating(rating) == rating.numeric /\ rating.value \in 1..5

\* if not rating_value or not (1 <= int(rating_value) <= 5): a 400; a text
\* that int() does not take raises ValueError, which the view does not
\* catch: a 500
R_Validate(j) ==
    /\ mq[j].pc = "r_validate"
    /\ IF ~mq[j].rating.present
       THEN MStep(j, MRespond(mq[j], 400, "Rating must be between 1 and 5"))
       ELSE IF ~mq[j].rating.numeric
       THEN MStep(j, MRespond(mq[j], 500, "ValueError"))
       ELSE IF ~(mq[j].rating.value \in 1..5)
       THEN MStep(j, MRespond(mq[j], 400, "Rating must be between 1 and 5"))
       ELSE MStep(j, [ mq[j] EXCEPT !.pc = "r_upsert" ])
    /\ UNCHANGED << db_models, db_ratings >>
    /\ UNCHANGED detection_vars
    /\ UNCHANGED client_vars

\* ModelRating.objects.update_or_create(model, user, session_key='')
R_Upsert(j) ==
    LET key == << mq[j].pk, mq[j].user >>
        row == [ rating |-> mq[j].rating.value, comment |-> "" ]
    IN  /\ mq[j].pc = "r_upsert"
        /\ db_ratings' =
              (key :> row) @@ [ k \in DOMAIN db_ratings \ { key } |->
                                  db_ratings[k] ]
        /\ MStep(j, [ mq[j] EXCEPT !.created = key \notin DOMAIN db_ratings,
                                    !.pc = "r_aggregate" ])
        /\ UNCHANGED db_models
        /\ UNCHANGED detection_vars
        /\ UNCHANGED client_vars

RECURSIVE SumRatings(_, _)
SumRatings(ratings, keys) ==
    IF keys = {} THEN 0
    ELSE LET k == CHOOSE m \in keys : TRUE
         IN  ratings[k].rating + SumRatings(ratings, keys \ { k })

\* round(Avg('rating') or 0, 2) over the ratings of model pk, in hundredths
AverageRating(ratings, pk) ==
    LET keys == { k \in DOMAIN ratings : k[1] = pk }
    IN  IF keys = {} THEN 0
        ELSE Round(100 * SumRatings(ratings, keys), Cardinality(keys))

\* avg_rating = ModelRating.objects.filter(model=model).aggregate(...);
\* model.average_rating = round(avg_rating, 2), on the instance
R_Aggregate(j) ==
    /\ mq[j].pc = "r_aggregate"
    /\ MStep(j, [ mq[j] EXCEPT !.model[1].average_rating =
                                   AverageRating(db_ratings, mq[j].pk),
                                !.pc = "r_save" ])
    /\ UNCHANGED << db_models, db_ratings >>
    /\ UNCHANGED detection_vars
    /\ UNCHANGED client_vars

\* model.save(update_fields=['average_rating'])
R_Save(j) ==
    /\ mq[j].pc = "r_save"
    /\ db_models' = [ db_models EXCEPT ![mq[j].pk].average_rating =
                                          mq[j].model[1].average_rating ]
    /\ MStep(j, [ mq[j] EXCEPT !.pc = "r_respond" ])
    /\ UNCHANGED db_ratings
    /\ UNCHANGED detection_vars
    /\ UNCHANGED client_vars

\* return Response({'rating': ..., 'average_rating': ..., 'created': ...})
R_Respond(j) ==
    /\ mq[j].pc = "r_respond"
    /\ MStep(j, MRespond(mq[j], 200,
                         [ rating |-> mq[j].rating.value,
                           average_rating |-> mq[j].model[1].average_rating,
                           created |-> mq[j].created ]))
    /\ UNCHANGED << db_models, db_ratings >>
    /\ UNCHANGED detection_vars
    /\ UNCHANGED client_vars

NextManager ==
    \E j \in ManagerRequests :
        \/ M_Submit(j)
        \/ M_Permission(j)
        \/ M_GetObject(j)
        \/ M_Increment(j)
        \/ M_Save(j)
        \/ M_Respond(j)
        \/ R_Validate(j)
        \/ R_Upsert(j)
        \/ R_Aggregate(j)
        \/ R_Save(j)
        \/ R_Respond(j)

SpecManager == Init /\ [][NextManager]_vars

----------------------------------------------------------------------------
(* Properties *)

\* the detect_face_landmarks call of request i has returned to detect_face
Returned(i) == rq[i].returned_at # 0

Answered(i) == rq[i].pc = "done" /\ rq[i].response # None

Code(i) == rq[i].response[1].body.code

\* the largest index LANDMARK_INDICES configures
MaxIndex ==
    CHOOSE m \in { LANDMARK_INDICES[n] : n \in NameSet } :
        \A n \in NameSet : LANDMARK_INDICES[n] <= m

\* the detector handed request i a face whose landmark array is too short
ShortArray(i) == rq[i].landmarks # None /\ rq[i].landmarks[1].len < MaxIndex

\* the detector reported zero faces to request i
ZeroFaces(i) == rq[i].results = Some(<<>>)

NoGeometry(r) ==
    /\ r.measurements = None
    /\ r.orientation = None
    /\ r.accessory_positions = None
    /\ r.confidence = None

\* C1: when the raw landmark array is shorter than the largest configured
\* index, the call emits no DetectionResult and what it hands its caller is
\* an InvalidInput outcome: the caller can tell it from the outcome of a
\* frame without a face.
C1_InvalidInputSurfaced ==
    \A i \in Requests :
        (Returned(i) /\ ShortArray(i)) =>
            /\ rq[i].ret = None
            /\ \A j \in Requests :
                   (Returned(j) /\ ZeroFaces(j)) => rq[i].ret # rq[j].ret

\* C2: the three failure outcomes are distinguishable by the client of
\* detect_face: zero faces is answered NO_FACE_DETECTED, while a failure
\* inside the call (an undersized array, an unexpected error) is answered as
\* a failure and never as NO_FACE_DETECTED.
C2_FailuresDistinguished ==
    \A i \in Requests :
        Answered(i) =>
            /\ (Returned(i) /\ ZeroFaces(i)) => Code(i) = "NO_FACE_DETECTED"
            /\ (Returned(i) /\ rq[i].caught # "") =>
                   /\ rq[i].response[1].status >= 400
                   /\ Code(i) # "NO_FACE_DETECTED"

\* C3: the confidence of every call lies in [0, 1], whatever visibility the
\* detector reports, below 0 and above 1 included.
C3_ConfidenceInUnitInterval ==
    \A i \in Requests :
        rq[i].confidence # None =>
            (0 <= rq[i].confidence[1] /\ rq[i].confidence[1] <= F(1))

\* C4 as stated: aspect_ratio * face_height equals face_width exactly when
\* face_height is not 0, and aspect_ratio is 1.0 when face_height is 0.
C4_AspectRatioExact ==
    \A i \in Requests :
        rq[i].measurements # None =>
            LET m == rq[i].measurements[1]
            IN  /\ m.face_height # 0 =>
                       FMul(m.aspect_ratio, m.face_height) = m.face_width
                /\ m.face_height = 0 => m.aspect_ratio = F(1)

\* the rounding one division and one product leave: half a part of the
\* quotient scaled by face_height, and half a part of the product
WithinRounding(product, exact, face_height) ==
    2 * Unit * Abs(product - exact) <= face_height + Unit

\* C4 as amended: aspect_ratio * face_height equals face_width up to the
\* rounding of the division and of the product when face_height is not 0;
\* aspect_ratio is exactly 1.0 when face_height is 0, where nothing is
\* divided.
C4_AspectRatioWithinRounding ==
    \A i \in Requests :
        rq[i].measurements # None =>
            LET m == rq[i].measurements[1]
            IN  /\ m.face_height >= 0
                /\ m.face_height # 0 =>
                       WithinRounding(FMul(m.aspect_ratio, m.face_height),
                                      m.face_width, m.face_height)
                /\ m.face_height = 0 => m.aspect_ratio = F(1)

\* C4 witness: measurements of a face of non-zero height whose ratio had to
\* be rounded, and whose eye distance is not 0
C4_Witness ==
    \E i \in Requests :
        /\ rq[i].measurements # None
        /\ rq[i].measurements[1].face_height > 0
        /\ rq[i].measurements[1].face_width > 0
        /\ FMul(rq[i].measurements[1].aspect_ratio,
                rq[i].measurements[1].face_height)
               # rq[i].measurements[1].face_width

FrameSize(i) == [ width  |-> Frames[rq[i].upload.frame].width,
                  height |-> Frames[rq[i].upload.frame].height ]

C6_ElapsedSpansGeometry ==
    \A i \in Requests :
        rq[i].ret # None =>
            LET r == rq[i]
            IN  /\ r.start_time < r.done_at.detect
                /\ r.end_time >= r.done_at.extract
                /\ r.end_time >= r.done_at.measure
                /\ r.end_time >= r.done_at.orient
                /\ r.end_time >= r.done_at.accessory
                /\ r.end_time >= r.done_at.confidence
                /\ r.ret[1].processing_time =
                       FMulInt(r.end_time - r.start_time, 1000)

\* what detect_face_landmarks returns for a frame when no other call has
\* used the tracker: the frame's own faces, and the time of its own steps
AloneReturn(frame) ==
    IF ~frame.decodable \/ frame.detector = "raise" \/ frame.faces = <<>>
    THEN None
    ELSE LET got == ExtractKeyPoints(LANDMARK_INDICES, frame.faces[1],
                                     frame.width, frame.height)
             measurements == calculate_face_measurements(got.key_points)
         IN  IF got.raised THEN None
             ELSE Some(DetectionDict(
                      got.key_points, measurements,
                      calculate_face_orientation(got.key_points),
                      calculate_accessory_positions(got.key_points, measurements),
                      FMulInt(3, 1000), calculate_confidence(got.key_points),
                      frame.width, frame.height))

\* C7: the calls share no mutable state (the long-lived state is the index
\* map, which is never mutated), so in every interleaving each call returns
\* what it would return when run alone on its own frame.
C7_CallsIndependent ==
    /\ face_tracker.LANDMARK_INDICES = LANDMARK_INDICES
    /\ \A i \in Requests :
           Returned(i) => rq[i].ret = AloneReturn(Frames[rq[i].upload.frame])

GeometryStages == { "t_measure", "t_orient", "t_accessory", "t_return" }

Ran(r, stage) == r.done_at[stage] # NotRun

\* C8: the pipeline fans out from the extraction: every later stage runs
\* only with all 20 points extracted, the accessory mapper only after the
\* measurements, and after a failed extraction no later stage runs.
C8_FanOutFanIn ==
    \A i \in Requests :
        LET r == rq[i]
        IN  /\ (r.pc \in GeometryStages \/ ~NoGeometry(r)) =>
                   /\ DOMAIN r.key_points = NameSet
                   /\ Ran(r, "extract")
            /\ \A s \in { "measure", "orient", "accessory", "confidence" } :
                   Ran(r, s) => (Ran(r, "extract") /\ r.done_at.extract < r.done_at[s])
            /\ (r.pc = "t_accessory" \/ r.accessory_positions # None) =>
                   r.measurements # None
            /\ Ran(r, "accessory") =>
                   (Ran(r, "measure") /\ r.done_at.measure < r.done_at.accessory)
            /\ (Returned(i) /\ DOMAIN r.key_points # NameSet) =>
                   (NoGeometry(r) /\ r.ret = None
                    /\ \A s \in { "extract", "measure", "orient", "accessory",
                                  "confidence" } : ~Ran(r, s))

\* C8 witness: one call ran the whole pipeline and another stopped at an
\* extraction that failed with points already extracted
C8_Witness ==
    \E i, j \in Requests :
        /\ rq[i].ret # None /\ Ran(rq[i], "confidence")
        /\ Returned(j) /\ rq[j].caught = "IndexError"
        /\ rq[j].key_points # NoPoints

\* C9: when the detector reports zero faces the call returns None by its
\* plain return (line 78): no exception is raised or caught, nothing is
\* logged and no part of a DetectionResult is built.
C9_NoFaceIsPlainReturn ==
    \A i \in Requests :
        (Returned(i) /\ ZeroFaces(i)) =>
            /\ rq[i].ret = None
            /\ rq[i].returned_at = 78
            /\ rq[i].caught = ""
            /\ rq[i].logged = <<>>
            /\ rq[i].landmarks = None
            /\ rq[i].key_points = NoPoints
            /\ NoGeometry(rq[i])

\* C9 witness: a request whose detector run reported zero faces was answered
C9_Witness ==
    \E i \in Requests :
        Answered(i) /\ Returned(i) /\ ZeroFaces(i)

\* C10: an unexpected failure inside the detection or the geometry is
\* caught and logged, and detect_face answers it as a generic failure (the
\* 500 INTERNAL_ERROR response).
C10_FailureSurfacedAsGenericFailure ==
    \A i \in Requests :
        (Answered(i) /\ rq[i].caught # "") =>
            /\ rq[i].logged # <<>>
            /\ rq[i].response[1].status = 500
            /\ Code(i) = "INTERNAL_ERROR"

----------------------------------------------------------------------------
(* Claims about one call of the engine and about the geometry *)

\* the call of request i is over: detect_face_landmarks has returned
CallOver(i) == rq[i].pc \in { "v_result", "done" } /\ rq[i].returned_at # 0

\* C11: the engine never retries: in every call of detect_face_landmarks, at
\* every moment and whatever the outcome (a result, no face, a failure), the
\* detector has been invoked at most once and the geometry has been entered
\* at most once, and no stage of the geometry has run twice
C11_NoRetry ==
    \A i \in Requests :
        /\ rq[i].process_calls <= 1
        /\ rq[i].extract_calls <= 1
        /\ rq[i].extract_calls <= rq[i].process_calls
        /\ rq[i].caught # "" => CallOver(i)

\* one call failed in the detector after invoking it once, another failed in
\* the geometry after entering it once, and both calls are over
C11_Witness ==
    \E i, j \in Requests :
        /\ CallOver(i) /\ rq[i].caught = "RuntimeError"
        /\ rq[i].process_calls = 1 /\ rq[i].extract_calls = 0
        /\ CallOver(j) /\ rq[j].caught = "IndexError"
        /\ rq[j].process_calls = 1 /\ rq[j].extract_calls = 1

PointFields == { "x", "y", "z", "visibility" }

\* C12: every LandmarkSet inside a returned DetectionResult is complete: its
\* keys are exactly the 20 names of the index map and each of its values has
\* exactly the fields x, y, z and visibility; no result carries a partial set
C12_LandmarkSetComplete ==
    \A i \in Requests :
        rq[i].ret # None =>
            LET landmarks == rq[i].ret[1].landmarks
            IN  /\ DOMAIN landmarks = DOMAIN face_tracker.LANDMARK_INDICES
                /\ Cardinality(DOMAIN landmarks) = 20
                /\ \A n \in DOMAIN landmarks :
                       DOMAIN landmarks[n] = PointFields

\* a call on an array of 478 landmarks returned a DetectionResult, next to a
\* call that failed with part of the points extracted and returned none
C12_Witness ==
    \E i, j \in Requests :
        /\ rq[i].ret # None /\ rq[i].landmarks[1].len = 478
        /\ Returned(j) /\ rq[j].ret = None
        /\ rq[j].key_points # NoPoints /\ DOMAIN rq[j].key_points # NameSet

\* the extraction of request i has run to its end
Extracted(i) == Ran(rq[i], "extract")

\* C13: for each of the 20 names, with index i in the index map, the
\* extracted point has x = raw[i].x * width, y = raw[i].y * height,
\* z = raw[i].z * width, and visibility = raw[i].visibility when the detector
\* provides it and 1.0 otherwise
C13_PointFromRaw ==
    \A i \in Requests :
        Extracted(i) =>
            \A n \in DOMAIN face_tracker.LANDMARK_INDICES :
                LET raw    == RawPoint(rq[i].landmarks[1],
                                       face_tracker.LANDMARK_INDICES[n])
                    width  == rq[i].image[1].width
                    height == rq[i].image[1].height
                    point  == rq[i].key_points[n]
                IN  /\ point.x = raw.x * width
                    /\ point.y = raw.y * height
                    /\ point.z = raw.z * width
                    /\ raw.visibility # None =>
                           point.visibility = raw.visibility[1]
                    /\ raw.visibility = None => point.visibility = Unit

\* an extraction from a frame wider than high, of a face with a point off
\* the image plane, one point with a visibility and one without
C13_Witness ==
    \E i \in Requests :
        /\ Extracted(i)
        /\ rq[i].image[1].width # rq[i].image[1].height
        /\ \E n, m \in NameSet :
              /\ rq[i].key_points[n].z # 0
              /\ RawPoint(rq[i].landmarks[1], LANDMARK_INDICES[n]).visibility = None
              /\ RawPoint(rq[i].landmarks[1], LANDMARK_INDICES[m]).visibility
                    = Some(50)
              /\ rq[i].key_points[m].visibility = 50

\* the accessory mapper of request i has run
Mapped(i) == rq[i].accessory_positions # None

\* C14: the hat transform has position (forehead.x, forehead.y - 0.2 *
\* face_height, forehead.z), the forehead point as rotation_point, scale
\* face_width / 200, width face_width and height 0.6 * face_width, each
\* product and quotient to the rounding of one operation; with the forehead
\* at (100, 50, 0) and face_height 40 the position is (100, 42, 0) exactly
C14_HatTransform ==
    \A i \in Requests :
        Mapped(i) =>
            LET hat      == rq[i].accessory_positions[1].hat
                forehead == rq[i].key_points["forehead_center"]
                m        == rq[i].measurements[1]
            IN  /\ hat.position.x = forehead.x
                /\ hat.position.z = forehead.z
                /\ hat.position.y <= forehead.y
                /\ Abs(5 * (forehead.y - hat.position.y) - m.face_height) <= 2
                /\ hat.rotation_point = forehead
                /\ Abs(200 * hat.scale - m.face_width) <= 100
                /\ hat.width = m.face_width
                /\ Abs(10 * hat.height - 6 * m.face_width) <= 5
                /\ (/\ forehead.x = F(100) /\ forehead.y = F(50)
                    /\ forehead.z = 0 /\ m.face_height = F(40))
                      => hat.position = [ x |-> F(100), y |-> F(42), z |-> 0 ]

\* the mapper ran on a forehead at (100, 50, 0) with face_height 40
C14_Witness ==
    \E i \in Requests :
        /\ Mapped(i)
        /\ rq[i].key_points["forehead_center"].x = F(100)
        /\ rq[i].key_points["forehead_center"].y = F(50)
        /\ rq[i].key_points["forehead_center"].z = 0
        /\ rq[i].measurements[1].face_height = F(40)
        /\ rq[i].accessory_positions[1].hat.position.y = F(42)

\* C15: the glasses transform has the eye centre, the componentwise midpoint
\* of the two eye points in x, y and z, as both position and rotation_point,
\* scale eye_distance / 120, width 1.4 * eye_distance and height 0.6 *
\* eye_distance, each to the rounding of one operation; with eye_distance
\* 120 the scale is exactly 1.0
C15_GlassesTransform ==
    \A i \in Requests :
        Mapped(i) =>
            LET glasses   == rq[i].accessory_positions[1].glasses
                left_eye  == rq[i].key_points["left_eye_center"]
                right_eye == rq[i].key_points["right_eye_center"]
                m         == rq[i].measurements[1]
            IN  /\ glasses.position = m.eye_center
                /\ glasses.rotation_point = m.eye_center
                /\ DOMAIN glasses.position = { "x", "y", "z" }
                /\ Abs(2 * m.eye_center.x - (left_eye.x + right_eye.x)) <= 1
                /\ Abs(2 * m.eye_center.y - (left_eye.y + right_eye.y)) <= 1
                /\ Abs(2 * m.eye_center.z - (left_eye.z + right_eye.z)) <= 1
                /\ Abs(120 * glasses.scale - m.eye_distance) <= 60
                /\ Abs(10 * glasses.width - 14 * m.eye_distance) <= 5
                /\ Abs(10 * glasses.height - 6 * m.eye_distance) <= 5
                /\ m.eye_distance = F(120) => glasses.scale = F(1)

\* the mapper ran on the eyes at (100, 100) and (220, 100), 120 apart
C15_Witness ==
    \E i \in Requests :
        /\ Mapped(i)
        /\ rq[i].measurements[1].eye_distance = F(120)
        /\ rq[i].accessory_positions[1].glasses.scale = F(1)
        /\ rq[i].accessory_positions[1].glasses.position.x = F(160)
        /\ rq[i].accessory_positions[1].glasses.position.y = F(100)

\* the measurements of request i have been computed
Measured(i) == rq[i].measurements # None

\* the points with the two eye points exchanged
SwapEyes(points) ==
    [ points EXCEPT !["left_eye_center"]  = points["right_eye_center"],
                    !["right_eye_center"] = points["left_eye_center"] ]

\* the points with the eyes moved to the depths zl and zr
EyesAtDepth(points, zl, zr) ==
    [ points EXCEPT !["left_eye_center"].z = zl, !["right_eye_center"].z = zr ]

\* depths to move the eyes to
Depths == { 0 - F(50), 0, F(25) }

\* C16: eye_distance is symmetric, the same with the left and the right eye
\* exchanged, and so is face_width, which is 2.5 times it (to the rounding
\* of the product); and neither depends on the z of the eye points
C16_EyeDistanceSymmetric ==
    \A i \in Requests :
        Measured(i) =>
            LET m       == rq[i].measurements[1]
                points  == rq[i].key_points
                swapped == calculate_face_measurements(SwapEyes(points))
            IN  /\ swapped.eye_distance = m.eye_distance
                /\ swapped.face_width = m.face_width
                /\ Abs(10 * m.face_width - 25 * m.eye_distance) <= 5
                /\ \A zl, zr \in Depths :
                      LET moved == calculate_face_measurements(
                                       EyesAtDepth(points, zl, zr))
                      IN  /\ moved.eye_distance = m.eye_distance
                          /\ moved.face_width = m.face_width

\* measurements taken of two eyes apart in x, in y and in z
C16_Witness ==
    \E i \in Requests :
        /\ Measured(i)
        /\ rq[i].key_points["left_eye_center"].x
              # rq[i].key_points["right_eye_center"].x
        /\ rq[i].key_points["left_eye_center"].y
              # rq[i].key_points["right_eye_center"].y
        /\ rq[i].key_points["left_eye_center"].z
              # rq[i].key_points["right_eye_center"].z
        /\ rq[i].measurements[1].eye_distance > 0

\* the orientation of request i has been computed
Oriented(i) == rq[i].orientation # None

\* C17: when the two eye centres have the same y and the right eye lies at
\* the larger x, roll is 0 (in radians and in degrees) and eye_distance is
\* right.x - left.x; with the eyes at (100, 100, 0) and (220, 100, 0)
\* eye_distance is 120 and roll is 0
C17_LevelEyes ==
    \A i \in Requests :
        Oriented(i) =>
            LET left  == rq[i].key_points["left_eye_center"]
                right == rq[i].key_points["right_eye_center"]
                o     == rq[i].orientation[1]
                m     == rq[i].measurements[1]
            IN  /\ (left.y = right.y /\ right.x > left.x) =>
                       /\ o.roll.y = 0 /\ o.roll.x > 0
                       /\ o.roll_degrees.y = 0 /\ o.roll_degrees.x > 0
                       /\ m.eye_distance = right.x - left.x
                /\ (/\ left.x = F(100) /\ left.y = F(100) /\ left.z = 0
                    /\ right.x = F(220) /\ right.y = F(100) /\ right.z = 0) =>
                       /\ m.eye_distance = F(120)
                       /\ o.roll.y = 0 /\ o.roll.x > 0

\* the orientation was computed of the eyes at (100, 100, 0) and (220, 100, 0)
C17_Witness ==
    \E i \in Requests :
        /\ Oriented(i)
        /\ rq[i].key_points["left_eye_center"].x = F(100)
        /\ rq[i].key_points["left_eye_center"].y = F(100)
        /\ rq[i].key_points["right_eye_center"].x = F(220)
        /\ rq[i].key_points["right_eye_center"].y = F(100)
        /\ rq[i].key_points["right_eye_center"].z = 0
        /\ rq[i].orientation[1].roll.y = 0

\* the detector gave the face of request i no visibility on any landmark
NoVisibility(i) ==
    /\ rq[i].landmarks # None
    /\ \A n \in NameSet :
          RawPoint(rq[i].landmarks[1], LANDMARK_INDICES[n]).visibility = None

\* C18: when the detector reports no visibility for any landmark, every
\* extracted point has visibility 1.0 and the confidence is exactly 1.0
C18_DefaultVisibility ==
    \A i \in Requests :
        NoVisibility(i) =>
            /\ \A n \in DOMAIN rq[i].key_points :
                  rq[i].key_points[n].visibility = Unit
            /\ rq[i].confidence # None => rq[i].confidence = Some(Unit)
            /\ rq[i].ret # None => rq[i].ret[1].confidence = Unit

\* a DetectionResult was returned for a face without any visibility
C18_Witness ==
    \E i \in Requests :
        /\ NoVisibility(i)
        /\ rq[i].ret # None
        /\ rq[i].ret[1].confidence = Unit
        /\ rq[i].ret[1].landmarks["nose_tip"].visibility = Unit

\* C19: every index of the index map lies in 0..467, so for every landmark
\* array of at least 468 entries the extraction succeeds for all 20 names:
\* it raises no IndexError, and the call does not end in a failure for the
\* array being too short
C19_ExtractionSucceedsFrom468 ==
    /\ \A n \in DOMAIN face_tracker.LANDMARK_INDICES :
          face_tracker.LANDMARK_INDICES[n] \in 0..467
    /\ \A i \in Requests :
          (/\ rq[i].landmarks # None
           /\ rq[i].landmarks[1].len >= 468
           /\ rq[i].extract_calls > 0) =>
              /\ Extracted(i)
              /\ DOMAIN rq[i].key_points = NameSet
              /\ rq[i].caught # "IndexError"

\* the extraction has run on an array of exactly 468 entries, and on one of
\* 478
C19_Witness ==
    \E i, j \in Requests :
        /\ rq[i].landmarks # None /\ rq[i].landmarks[1].len = 468
        /\ Extracted(i) /\ rq[i].ret # None
        /\ rq[j].landmarks # None /\ rq[j].landmarks[1].len = 478
        /\ Extracted(j)

----------------------------------------------------------------------------
(* Claims about models_manager *)

\* the increment_usage requests on model pk that have completed
Incremented(pk) ==
    { j \in ManagerRequests :
        /\ mq[j].action = "increment_usage"
        /\ mq[j].pk = pk /\ mq[j].pc = "done"
        /\ mq[j].response[1].status = 200 }

\* no increment_usage request on model pk is under way
Quiet(pk) ==
    \A j \in ManagerRequests :
        mq[j].pk = pk => mq[j].pc \in { "idle", "done" }

\* C20: increment_usage loses no update: once n increment_usage requests on
\* one AccessoryModel have completed, however they interleaved, and none is
\* under way, its stored usage_count is exactly n higher than before
C20_NoLostUpdate ==
    \A pk \in DOMAIN AccessoryModels :
        Quiet(pk) =>
            db_models[pk].usage_count
                = AccessoryModels[pk].usage_count + Cardinality(Incremented(pk))

\* a rate request on model pk is under way
Rating(pk) ==
    \E j \in ManagerRequests :
        /\ mq[j].action = "rate" /\ mq[j].pk = pk
        /\ mq[j].pc \notin { "idle", "done" }

\* C21: once the rate requests on a model have completed, however they
\* interleaved, its stored average_rating is the mean of all its ModelRating
\* rows rounded to 2 decimals; and a request whose rating is missing or
\* outside 1..5 is answered with an error
C21_AverageIsMean ==
    /\ \A pk \in DOMAIN AccessoryModels :
          ~Rating(pk) =>
              db_models[pk].average_rating = AverageRating(db_ratings, pk)
    /\ \A j \in ManagerRequests :
          (/\ mq[j].action = "rate" /\ mq[j].pc = "done"
           /\ ~ValidRating(mq[j].rating)) =>
              mq[j].response[1].status >= 400

----------------------------------------------------------------------------
(* face_detection.views as one client uses them: detect_face from its      *)
(* checks to its response, get_detection_history, save_accessory_tryron,   *)
(* get_session_tryons and clear_session, statement by statement.           *)
(* request.session is loaded when a request first reads it and saved with  *)
(* the response when the request has written to it, unless the response    *)
(* is a 500.                                                               *)

engine_vars == << face_tracker, rq >>

CStep(c, r) == cq' = [ cq EXCEPT ![c] = r ]

\* the response, and the session saved with it
CFinish(c, r, status, body) ==
    /\ CStep(c, [ r EXCEPT !.response = Some([ status |-> status,
                                               body |-> body ]),
                           !.pc = "done" ])
    /\ session' = IF r.modified /\ status # 500 THEN r.session_data[1]
                  ELSE session
    /\ cleared' = IF r.pc = "k_delete" THEN TRUE
                  ELSE IF r.pc = "d_cache" THEN FALSE
                  ELSE cleared

FirstPc ==
    [ detect_face |-> "d_detect", clear_session |-> "k_read",
      get_detection_history |-> "h_read", save_accessory_tryron |-> "a_read",
      get_session_tryons |-> "y_read" ]

\* a request arrives; requests are numbered in the order of their arrival
C_Submit(c) ==
    /\ cq[c].pc = "idle"
    /\ \A k \in ClientRequests : k < c => cq[k].pc # "idle"
    /\ \E input \in ClientInputs :
          CStep(c, [ cq[c] EXCEPT !.op = input.op, !.upload = input.upload,
                                  !.limit = input.limit, !.data = input.data,
                                  !.in_window = cleared,
                                  !.pc = FirstPc[input.op] ])
    /\ UNCHANGED << cleared, session, uuids, db_sessions, db_results, cache,
                   db_tryons >>
    /\ UNCHANGED << engine_vars, manager_vars >>

\* what face_tracker.detect_face_landmarks hands detect_face for a frame:
\* the result of the frame, or None when the tracker misses its face
DetectOutcomes(frame) == { AloneReturn(frame), None }

\* detect_face, lines 26-56 and 98-103: the checks of the
\* upload, the call of the engine, and the answer when it returns None
D_Detect(c) ==
    LET r == cq[c]
        u == r.upload
    IN  /\ r.pc = "d_detect"
        /\ IF ~u.has_image
           THEN CFinish(c, r, 400, [ error |-> "No image file provided",
                                     code |-> "NO_IMAGE" ])
           ELSE IF u.size > MaxUploadSize
           THEN CFinish(c, r, 400,
                    [ error |-> "Image file too large. Maximum size is 10MB",
                      code |-> "FILE_TOO_LARGE" ])
           ELSE IF u.content_type \notin AllowedTypes
           THEN CFinish(c, r, 400,
                    [ error |-> "Invalid file type. Allowed types: JPEG, PNG, WebP",
                      code |-> "INVALID_FILE_TYPE" ])
           ELSE \E ret \in DetectOutcomes(Frames[u.frame]) :
                  IF ret = None
                  THEN CFinish(c, r, 200,
                           [ success |-> FALSE,
                             message |-> "No face detected in the image",
                             code |-> "NO_FACE_DETECTED" ])
                  ELSE /\ CStep(c, [ r EXCEPT !.detection_result = ret,
                                              !.pc = "d_session" ])
                       /\ UNCHANGED << session, cleared >>
        /\ UNCHANGED << uuids, db_sessions, db_results, cache, db_tryons >>
        /\ UNCHANGED << engine_vars, manager_vars >>

\* lines 58-61: the face_session_key of the session, or a new uuid4 put
\* into the session
D_Session(c) ==
    LET r == cq[c]
    IN  /\ r.pc = "d_session"
        /\ IF session = None
           THEN /\ uuids' = uuids + 1
                /\ CStep(c, [ r EXCEPT !.session_data = << Some(uuids + 1) >>,
                                       !.modified = TRUE,
                                       !.session_key = Some(uuids + 1),
                                       !.pc = "d_get_or_create" ])
           ELSE /\ UNCHANGED uuids
                /\ CStep(c, [ r EXCEPT !.session_data = << session >>,
                                       !.session_key = session,
                                       !.pc = "d_get_or_create" ])
        /\ UNCHANGED << cleared, session, db_sessions, db_results, cache, db_tryons >>
        /\ UNCHANGED << engine_vars, manager_vars >>

InternalError == [ error |-> "Internal server error", code |-> "INTERNAL_ERROR" ]

\* a faulty variant of D_GetOrCreate: get_or_create outside of
\* transaction.atomic(), so that the session row it creates is committed
\* at once
D_GetOrCreate_outside_atomic(c) ==
    LET r == cq[c]
        key == r.session_key[1]
    IN  /\ r.pc = "d_get_or_create"
        /\ \E db_ok \in BOOLEAN :
              IF db_ok
              THEN /\ db_sessions' =
                        IF key \in DOMAIN db_sessions THEN db_sessions
                        ELSE (key :> [ is_active |-> TRUE ]) @@ db_sessions
                   /\ CStep(c, [ r EXCEPT !.created =
                                             key \notin DOMAIN db_sessions,
                                          !.pc = "d_create" ])
                   /\ UNCHANGED << session, cleared >>
              ELSE /\ CFinish(c, r, 500, InternalError)
                   /\ UNCHANGED db_sessions
        /\ UNCHANGED << uuids, db_results, cache, db_tryons >>
        /\ UNCHANGED << engine_vars, manager_vars >>

\* lines 63-70: inside transaction.atomic(), get_or_create of the session
\* row; what it creates is not committed yet. The database may fail.
D_GetOrCreate(c) ==
    LET r == cq[c]
    IN  /\ r.pc = "d_get_or_create"
        /\ \E db_ok \in BOOLEAN :
              IF db_ok
              THEN /\ CStep(c, [ r EXCEPT !.created =
                                             r.session_key[1] \notin DOMAIN db_sessions,
                                          !.pc = "d_create" ])
                   /\ UNCHANGED << session, cleared >>
              ELSE CFinish(c, r, 500, InternalError)
        /\ UNCHANGED << uuids, db_sessions, db_results, cache, db_tryons >>
        /\ UNCHANGED << engine_vars, manager_vars >>

\* the FaceDetectionResult row detect_face creates
DetectionRow(id, session_key, d) ==
    [ id |-> id, session |-> session_key, landmarks_data |-> d,
      confidence_score |-> d.confidence,
      face_width |-> d.measurements.face_width,
      face_height |-> d.measurements.face_height,
      face_angle |-> d.orientation.roll,
      processing_time |-> FMulInt(12, 1000) ]

\* lines 73-82 and the end of the atomic block: the detection row is
\* created and the transaction commits, or the database fails and the
\* transaction is rolled back
D_Create(c) ==
    LET r == cq[c]
        key == r.session_key[1]
    IN  /\ r.pc = "d_create"
        /\ \E db_ok \in BOOLEAN :
              IF db_ok
              THEN /\ db_sessions' =
                        IF key \in DOMAIN db_sessions THEN db_sessions
                        ELSE (key :> [ is_active |-> TRUE ]) @@ db_sessions
                   /\ db_results' =
                        Append(db_results,
                               DetectionRow(Len(db_results) + 1, key,
                                            r.detection_result[1]))
                   /\ CStep(c, [ r EXCEPT !.detection_id = Len(db_results) + 1,
                                          !.pc = "d_cache" ])
                   /\ UNCHANGED << session, cleared >>
              ELSE /\ CFinish(c, r, 500, InternalError)
                   /\ UNCHANGED << db_sessions, db_results >>
        /\ UNCHANGED << uuids, cache, db_tryons >>
        /\ UNCHANGED << engine_vars, manager_vars >>

\* lines 85-97: cache.set of the latest detection, and the response
D_Cache(c) ==
    LET r == cq[c]
        key == r.session_key[1]
        d == r.detection_result[1]
    IN  /\ r.pc = "d_cache"
        /\ cache' = (key :> d) @@ [ k \in DOMAIN cache \ { key } |-> cache[k] ]
        /\ CFinish(c, r, 200,
                   [ success |-> TRUE,
                     detection_id |-> r.detection_id,
                     session_id |-> key,
                     landmarks |-> d.landmarks,
                     measurements |-> d.measurements,
                     orientation |-> d.orientation,
                     accessory_positions |-> d.accessory_positions,
                     confidence |-> d.confidence,
                     processing_time |-> FMulInt(12, 1000) ])
        /\ UNCHANGED << uuids, db_sessions, db_results, db_tryons >>
        /\ UNCHANGED << engine_vars, manager_vars >>

SessionCleared == [ success |-> TRUE, message |-> "Session cleared" ]

\* clear_session, lines 269-270: the key of the session, if it has one
K_Read(c) ==
    LET r == cq[c]
    IN  /\ r.pc = "k_read"
        /\ IF session = None
           THEN CFinish(c, [ r EXCEPT !.session_data = << session >> ],
                        200, SessionCleared)
           ELSE /\ CStep(c, [ r EXCEPT !.session_data = << session >>,
                                       !.session_key = session,
                                       !.pc = "k_update" ])
                /\ UNCHANGED << session, cleared >>
        /\ UNCHANGED << uuids, db_sessions, db_results, cache, db_tryons >>
        /\ UNCHANGED << engine_vars, manager_vars >>

\* lines 271-273: filter(session_key=session_key).update(is_active=False)
K_Update(c) ==
    LET r == cq[c]
    IN  /\ r.pc = "k_update"
        /\ db_sessions' = [ k \in DOMAIN db_sessions |->
                              IF k = r.session_key[1]
                              THEN [ db_sessions[k] EXCEPT !.is_active = FALSE ]
                              ELSE db_sessions[k] ]
        /\ CStep(c, [ r EXCEPT !.pc = "k_cache" ])
        /\ UNCHANGED << cleared, session, uuids, db_results, cache, db_tryons >>
        /\ UNCHANGED << engine_vars, manager_vars >>

\* line 276: cache.delete of the latest detection
K_Cache(c) ==
    LET r == cq[c]
    IN  /\ r.pc = "k_cache"
        /\ cache' = [ k \in DOMAIN cache \ { r.session_key[1] } |-> cache[k] ]
        /\ CStep(c, [ r EXCEPT !.pc = "k_delete" ])
        /\ UNCHANGED << cleared, session, uuids, db_sessions, db_results, db_tryons >>
        /\ UNCHANGED << engine_vars, manager_vars >>

\* lines 279-282: del request.session['face_session_key'], and the response
K_Delete(c) ==
    LET r == cq[c]
    IN  /\ r.pc = "k_delete"
        /\ CFinish(c, [ r EXCEPT !.session_data = << None >>,
                                 !.modified = TRUE ], 200, SessionCleared)
        /\ UNCHANGED << uuids, db_sessions, db_results, cache, db_tryons >>
        /\ UNCHANGED << engine_vars, manager_vars >>

\* the rows of a table that belong to a session, newest first
RowsOf(rows, key) ==
    LET own == SelectSeq(rows, LAMBDA row : row.session = key)
    IN  [ k \in 1..Len(own) |-> own[Len(own) + 1 - k] ]

Take(rows, n) == IF n < Len(rows) THEN SubSeq(rows, 1, n) ELSE rows

\* get_detection_history, lines 119-123: the key of the session, then
\* int() of the limit, which raises on a text that is no number
H_Read(c) ==
    LET r == cq[c]
        r1 == [ r EXCEPT !.session_data = << session >>,
                         !.session_key = session ]
    IN  /\ r.pc = "h_read"
        /\ IF ~r.limit.numeric
           THEN CFinish(c, r1, 500, [ error |-> "Internal server error" ])
           ELSE IF session = None
           THEN CFinish(c, r1, 200, [ detections |-> <<>> ])
           ELSE /\ CStep(c, [ r1 EXCEPT !.pc = "h_query" ])
                /\ UNCHANGED << session, cleared >>
        /\ UNCHANGED << uuids, db_sessions, db_results, cache, db_tryons >>
        /\ UNCHANGED << engine_vars, manager_vars >>

\* lines 125-155: the session row and its newest detections, at most limit
H_Query(c) ==
    LET r == cq[c]
        key == r.session_key[1]
        limit == IF r.limit.value < 50 THEN r.limit.value ELSE 50
        own == RowsOf(db_results, key)
        shown == Take(own, limit)
    IN  /\ r.pc = "h_query"
        /\ IF key \notin DOMAIN db_sessions
           THEN CFinish(c, r, 200, [ detections |-> <<>> ])
           ELSE CFinish(c, r, 200,
                    [ detections |->
                        [ k \in 1..Len(shown) |->
                            [ id |-> shown[k].id,
                              confidence |-> shown[k].confidence_score,
                              face_width |-> shown[k].face_width,
                              face_height |-> shown[k].face_height,
                              processing_time |-> shown[k].processing_time ] ],
                      total_count |-> Len(own),
                      session_info |->
                        [ is_active |-> db_sessions[key].is_active ] ])
        /\ UNCHANGED << uuids, db_sessions, db_results, cache, db_tryons >>
        /\ UNCHANGED << engine_vars, manager_vars >>

\* save_accessory_tryron, lines 171-186: the key of the session and the
\* two required entries of the data
A_Read(c) ==
    LET r == cq[c]
        r1 == [ r EXCEPT !.session_data = << session >>,
                         !.session_key = session ]
    IN  /\ r.pc = "a_read"
        /\ IF session = None
           THEN CFinish(c, r1, 400, [ error |-> "No active session" ])
           ELSE IF r.data.accessory_type = "" \/ r.data.model_id = 0
           THEN CFinish(c, r1, 400,
                    [ error |-> "accessory_type and model_id are required" ])
           ELSE /\ CStep(c, [ r1 EXCEPT !.pc = "a_upsert" ])
                /\ UNCHANGED << session, cleared >>
        /\ UNCHANGED << uuids, db_sessions, db_results, cache, db_tryons >>
        /\ UNCHANGED << engine_vars, manager_vars >>

\* the places in the table of the rows update_or_create looks up
Matching(rows, key, accessory_type) ==
    { k \in 1..Len(rows) :
        rows[k].session = key /\ rows[k].accessory_type = accessory_type }

\* a faulty variant of update_or_create: objects.create, which looks no row
\* up, on a table without unique_together
update_or_create_always_creating(rows, key, data) ==
    [ rows |-> Append(rows,
                 [ id |-> Len(rows) + 1, session |-> key,
                   accessory_type |-> data.accessory_type,
                   accessory_model_id |-> data.model_id,
                   position_adjustments |-> data.adjustments ]),
      id |-> Len(rows) + 1, created |-> TRUE ]

\* AccessoryTryOn.objects.update_or_create(session, accessory_type,
\* defaults): the row found is updated, or a row is created. It is one step:
\* rows are never deleted, so a row found is there to update, and when two
\* requests find none, unique_together (models.py, line 77) refuses the
\* second INSERT and update_or_create updates the row of the first, which
\* is what it does when it runs after the first as a whole
update_or_create(rows, key, data) ==
    LET found == Matching(rows, key, data.accessory_type)
    IN  IF found # {}
        THEN LET k == CHOOSE m \in found : TRUE
             IN  [ rows |-> [ rows EXCEPT
                               ![k].accessory_model_id = data.model_id,
                               ![k].position_adjustments = data.adjustments ],
                   id |-> rows[k].id, created |-> FALSE ]
        ELSE [ rows |-> Append(rows,
                          [ id |-> Len(rows) + 1, session |-> key,
                            accessory_type |-> data.accessory_type,
                            accessory_model_id |-> data.model_id,
                            position_adjustments |-> data.adjustments ]),
               id |-> Len(rows) + 1, created |-> TRUE ]

\* lines 188-214: the session row, a 404 without it, then update_or_create
A_Upsert(c) ==
    LET r == cq[c]
        key == r.session_key[1]
        saved == update_or_create(db_tryons, key, r.data)
    IN  /\ r.pc = "a_upsert"
        /\ IF key \notin DOMAIN db_sessions
           THEN /\ CFinish(c, r, 404, [ error |-> "Session not found" ])
                /\ UNCHANGED db_tryons
           ELSE /\ db_tryons' = saved.rows
                /\ CFinish(c, [ r EXCEPT !.created = saved.created ], 200,
                           [ success |-> TRUE,
                             message |-> "Accessory configuration saved",
                             tryron_id |-> saved.id,
                             created |-> saved.created ])
        /\ UNCHANGED << uuids, db_sessions, db_results, cache >>
        /\ UNCHANGED << engine_vars, manager_vars >>

\* get_session_tryons, lines 230-232: the key of the session
Y_Read(c) ==
    LET r == cq[c]
        r1 == [ r EXCEPT !.session_data = << session >>,
                         !.session_key = session ]
    IN  /\ r.pc = "y_read"
        /\ IF session = None
           THEN CFinish(c, r1, 200, [ tryons |-> <<>> ])
           ELSE /\ CStep(c, [ r1 EXCEPT !.pc = "y_query" ])
                /\ UNCHANGED << session, cleared >>
        /\ UNCHANGED << uuids, db_sessions, db_results, cache, db_tryons >>
        /\ UNCHANGED << engine_vars, manager_vars >>

\* lines 234-253: the session row and its try-ons
Y_Query(c) ==
    LET r == cq[c]
        key == r.session_key[1]
    IN  /\ r.pc = "y_query"
        /\ IF key \notin DOMAIN db_sessions
           THEN CFinish(c, r, 200, [ tryons |-> <<>> ])
           ELSE CFinish(c, r, 200, [ tryons |-> RowsOf(db_tryons, key) ])
        /\ UNCHANGED << uuids, db_sessions, db_results, cache, db_tryons >>
        /\ UNCHANGED << engine_vars, manager_vars >>

NextClient ==
    \E c \in ClientRequests :
        \/ C_Submit(c)
        \/ D_Detect(c)
        \/ D_Session(c)
        \/ D_GetOrCreate(c)
        \/ D_Create(c)
        \/ D_Cache(c)
        \/ K_Read(c)
        \/ K_Update(c)
        \/ K_Cache(c)
        \/ K_Delete(c)
        \/ H_Read(c)
        \/ H_Query(c)
        \/ A_Read(c)
        \/ A_Upsert(c)
        \/ Y_Read(c)
        \/ Y_Query(c)

\* the client either is new or has a face session already: one detection
\* stored and cached under key 1, with a pair of glasses saved or without
InitClient ==
    /\ face_tracker = [ LANDMARK_INDICES |-> LANDMARK_INDICES,
                        face_mesh |-> [ tracked |-> "none" ] ]
    /\ rq = [ i \in Requests |-> IdleRequest ]
    /\ db_models = AccessoryModels
    /\ db_ratings = ModelRatings
    /\ mq = [ j \in ManagerRequests |-> IdleManagerRequest ]
    /\ cq = [ c \in ClientRequests |-> IdleClientRequest ]
    /\ cleared = FALSE
    /\ \/ /\ session = None
          /\ uuids = 0
          /\ db_sessions = [ k \in {} |-> 0 ]
          /\ db_results = <<>>
          /\ cache = [ k \in {} |-> 0 ]
          /\ db_tryons = <<>>
       \/ /\ session = Some(1)
          /\ uuids = 1
          /\ db_sessions = (1 :> [ is_active |-> TRUE ])
          /\ db_results = << DetectionRow(1, 1, AloneReturn(Frames.level)[1]) >>
          /\ cache = (1 :> AloneReturn(Frames.level)[1])
          /\ db_tryons \in
                { <<>>,
                  << [ id |-> 1, session |-> 1, accessory_type |-> "glasses",
                       accessory_model_id |-> 11,
                       position_adjustments |-> "{}" ] >> }

SpecClient == InitClient /\ [][NextClient]_vars

----------------------------------------------------------------------------
(* Claims about the face_detection views of one client.                    *)

\* the detection row a step has just added to the table
Added == db_results'[Len(db_results')]

\* C22: no FaceDetectionResult is ever created for a FaceDetectionSession
\* whose is_active is False: in every interleaving of detect_face and
\* clear_session of one client, every step that adds a detection row adds
\* it to a session that is active then
C22_NoDetectionOnInactive ==
    [][ Len(db_results') > Len(db_results) =>
          /\ Added.session \in DOMAIN db_sessions'
          /\ db_sessions'[Added.session].is_active ]_vars

\* the step in which request c is answered
Completes(c) == cq[c].pc # "done" /\ cq'[c].pc = "done"

\* the answer the views give a client that has no face session
AnswerWithoutSession(op) ==
    CASE op = "get_detection_history" ->
            [ status |-> 200, body |-> [ detections |-> <<>> ] ]
      [] op = "get_session_tryons" ->
            [ status |-> 200, body |-> [ tryons |-> <<>> ] ]
      [] op = "save_accessory_tryron" ->
            [ status |-> 400, body |-> [ error |-> "No active session" ] ]

\* C23: when clear_session completes for a client with a face session, the
\* face_session_key is removed, the FaceDetectionSession is inactive and the
\* cached latest detection is deleted; and a get_detection_history,
\* get_session_tryons or save_accessory_tryron request that arrives after
\* that and is answered before the next successful detect_face gets an
\* empty detections list, an empty tryons list, or 'No active session'
C23_ClearedUntilNextDetection ==
    [][ \A c \in ClientRequests :
          Completes(c) =>
            /\ (cq'[c].op = "clear_session" /\ cq'[c].session_key # None) =>
                  /\ session' = None
                  /\ ~db_sessions'[cq'[c].session_key[1]].is_active
                  /\ cq'[c].session_key[1] \notin DOMAIN cache'
            /\ (/\ cq'[c].in_window /\ cleared
                /\ cq'[c].op \in { "get_detection_history",
                                   "get_session_tryons",
                                   "save_accessory_tryron" }) =>
                  cq'[c].response[1] = AnswerWithoutSession(cq'[c].op) ]_vars

\* what the views keep for the client: its session, the three tables and
\* the cache
client_state == << session, db_sessions, db_results, cache, db_tryons >>

\* a detect_face request that has no detection: its upload was refused or
\* no face was found in it
WithoutDetection(r) == r.op = "detect_face" /\ r.detection_result = None

\* session rows and detection rows come in pairs: every session has a
\* detection and every detection a session; an answered detect_face that
\* had a detection either left both rows or, answered 500 with a key of
\* its own making, neither
BothOrNeither ==
    /\ \A key \in DOMAIN db_sessions : RowsOf(db_results, key) # <<>>
    /\ \A k \in 1..Len(db_results) : db_results[k].session \in DOMAIN db_sessions
    /\ \A c \in ClientRequests :
          LET r == cq[c]
          IN  (r.pc = "done" /\ r.op = "detect_face" /\ r.session_key # None) =>
                IF r.response[1].status = 200
                THEN /\ r.session_key[1] \in DOMAIN db_sessions
                     /\ r.detection_id \in 1..Len(db_results)
                     /\ db_results[r.detection_id].session = r.session_key[1]
                ELSE r.modified => r.session_key[1] \notin DOMAIN db_sessions

\* C24: no step of a detect_face request without a detection (no image,
\* image over 10MB, disallowed content type, no face detected) changes the
\* session, a table or the cache; a step that adds a session row adds its
\* detection row with it, a detect_face answered 500 has added neither,
\* and in every state reached sessions and detections come in pairs
C24_NothingOrBoth ==
    [][ /\ \A c \in ClientRequests :
              (cq'[c] # cq[c] /\ WithoutDetection(cq'[c])) =>
                  UNCHANGED client_state
        /\ DOMAIN db_sessions' # DOMAIN db_sessions =>
              /\ Len(db_results') = Len(db_results) + 1
              /\ DOMAIN db_sessions' = DOMAIN db_sessions \cup { Added.session }
        /\ \A c \in ClientRequests :
              (/\ Completes(c) /\ cq'[c].op = "detect_face"
               /\ cq'[c].response[1].status = 500) =>
                  UNCHANGED client_state
        /\ BothOrNeither' ]_vars

\* a detect_face without a detection has been answered, and another has
\* been answered with a detection for which it made the session
C24_Witness ==
    \E c, d \in ClientRequests :
        /\ cq[c].pc = "done" /\ WithoutDetection(cq[c])
        /\ cq[c].response[1].body.code = "NO_FACE_DETECTED"
        /\ cq[d].pc = "done" /\ cq[d].op = "detect_face"
        /\ cq[d].response[1].status = 200 /\ cq[d].created
        /\ session = cq[d].session_key
        /\ cq[d].session_key[1] \in DOMAIN cache

\* no two rows of AccessoryTryOn have the same session and accessory_type
OnePerPair ==
    \A i, j \in 1..Len(db_tryons) :
        (/\ db_tryons[i].session = db_tryons[j].session
         /\ db_tryons[i].accessory_type = db_tryons[j].accessory_type) => i = j

\* the data of a save_accessory_tryron request lack a required entry
Incomplete(data) == data.accessory_type = "" \/ data.model_id = 0

\* the step answers a save for a pair that has a row: the row has the new
\* model id and adjustments, no row is added, created is false; for a pair
\* without a row: one row is added, created is true
Saves(r) ==
    LET key == r.session_key[1]
        found == Matching(db_tryons, key, r.data.accessory_type)
        now == Matching(db_tryons', key, r.data.accessory_type)
    IN  /\ Cardinality(now) = 1
        /\ \A k \in now :
              /\ db_tryons'[k].accessory_model_id = r.data.model_id
              /\ db_tryons'[k].position_adjustments = r.data.adjustments
              /\ r.response[1].body.tryron_id = db_tryons'[k].id
        /\ \A k \in 1..Len(db_tryons) : k \notin now => db_tryons'[k] = db_tryons[k]
        /\ r.response[1].body.created = (found = {})
        /\ Len(db_tryons') = IF found = {} THEN Len(db_tryons) + 1
                             ELSE Len(db_tryons)

\* C25: there is at most one AccessoryTryOn per (session, accessory_type);
\* a save for a pair that has a row updates the row's model id and
\* adjustments and reports created = false instead of adding a row; a
\* request without a face_session_key, or without accessory_type or
\* model_id, is answered 400, and no step of a save_accessory_tryron
\* request but its answer 200 changes anything
C25_OneTryOnPerPair ==
    [][ /\ OnePerPair'
        /\ \A c \in ClientRequests :
              (cq'[c] # cq[c] /\ cq'[c].op = "save_accessory_tryron") =>
                 IF Completes(c) /\ cq'[c].response[1].status = 200
                 THEN /\ Saves(cq'[c])
                      /\ ~Incomplete(cq'[c].data)
                      /\ UNCHANGED << session, db_sessions, db_results, cache >>
                 ELSE /\ UNCHANGED client_state
                      /\ (/\ Completes(c)
                          /\ (\/ cq'[c].session_key = None
                              \/ Incomplete(cq'[c].data)))
                            => cq'[c].response[1].status = 400 ]_vars

\* a first save for glasses has made the row, a second has changed it to
\* another model and other adjustments, and there is one row
C25_Witness ==
    \E c, d \in ClientRequests :
        /\ cq[c].pc = "done" /\ cq[c].op = "save_accessory_tryron"
        /\ cq[c].response[1].status = 200 /\ cq[c].response[1].body.created
        /\ cq[c].data.accessory_type = "glasses" /\ cq[c].data.model_id = 11
        /\ cq[d].pc = "done" /\ cq[d].op = "save_accessory_tryron"
        /\ cq[d].response[1].status = 200 /\ ~cq[d].response[1].body.created
        /\ cq[d].data.accessory_type = "glasses" /\ cq[d].data.model_id = 12
        /\ Len(db_tryons) = 1
        /\ db_tryons[1].accessory_model_id = 12
        /\ db_tryons[1].position_adjustments = "moved"

============================================================================
